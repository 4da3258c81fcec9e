------------------------- MODULE MessageStoreProofs --------------------------
(* A walk through the pages of a query is in order and complete, for any     *)
(* messages, queries, page sizes and interleavings of puts and sweeps.       *)
EXTENDS MessageStore, FiniteSetTheorems, WellFoundedInduction, TLAPS

(* The provers of the leaves that name none. An attempt with SMT ends when the
   translation takes five seconds, whatever its limit: on a busy machine a leaf
   needs a later attempt. *)
USE SMTT(15), Zenon, SMTT(30), ZenonT(30), SMTT(40), SMTT(50),
    ZenonT(60), SMTT(60), SMTT(70), SMTT(80), SMTT(90)

(* A set of naturals has a least element: what stands for induction here. *)
LEMMA Least ==
  ASSUME NEW T \in SUBSET Nat, T # {}
  PROVE  \E n \in T : \A m \in T : n <= m
<1> DEFINE R == OpToRel(<, Nat)
<1>1. IsWellFoundedOn(R, Nat)
  BY ZenonT(60), NatLessThanWellFounded
<1>2. PICK n \in T : \A m \in T : <<m, n>> \notin R
  <2> HIDE DEF R
  <2> QED
    BY ZenonT(60), <1>1, WFMin
<1>3. \A m \in T : ~(m < n)
  BY ZenonT(60), <1>2 DEF OpToRel
<1>4. QED
  BY <1>3
-----------------------------------------------------------------------------
(* Row g comes before row h in the order of q. *)
Pre(q, g, h) == Before(q, Key(g), Key(h))

(* Both directions order the rows strictly and totally: the hash breaks ties of
   the time. *)
LEMMA RowOrder ==
  ASSUME TypeOK, NEW q
  PROVE  /\ \A f, g, h \in DOMAIN rows : Pre(q, f, g) /\ Pre(q, g, h) => Pre(q, f, h)
         /\ \A h \in DOMAIN rows : ~Pre(q, h, h)
         /\ \A g, h \in DOMAIN rows : g = h \/ Pre(q, g, h) \/ Pre(q, h, g)
<1>1. \A h \in DOMAIN rows : h \in Nat /\ rows[h] \in Int /\ Key(h)[1] = rows[h] /\ Key(h)[2] = h
  BY StoreAssumption DEF TypeOK, Key
<1>2. QED
  BY <1>1 DEF Pre, Before, Less

LEMMA Finite ==
  ASSUME TypeOK, NEW S \in SUBSET DOMAIN rows
  PROVE  IsFiniteSet(S) /\ Cardinality(S) \in Nat /\ Cardinality(S) < SignBit
<1>1. S \in SUBSET Hash /\ IsFiniteSet(Hash)
  BY StoreAssumption DEF TypeOK
<1>2. IsFiniteSet(S) /\ Cardinality(S) <= Cardinality(Hash)
  BY <1>1, FS_Subset
<1>3. Cardinality(S) \in Nat /\ Cardinality(Hash) \in Nat
  BY <1>1, <1>2, FS_CardinalityType
<1>4. QED
  BY <1>2, <1>3, StoreAssumption

(* The rows of S before h, whose number LIMIT compares. *)
Ahead(q, S, h) == {g \in S : Pre(q, g, h)}

LEMMA AheadIs ==
  ASSUME TypeOK, NEW q, NEW S \in SUBSET DOMAIN rows, NEW h \in DOMAIN rows
  PROVE  /\ Cardinality(Ahead(q, S, h)) \in Nat
         /\ \A g \in S : Pre(q, g, h) => Cardinality(Ahead(q, S, g)) < Cardinality(Ahead(q, S, h))
<1>1. \A g : Ahead(q, S, g) \in SUBSET S
  BY DEF Ahead
<1>2. \A g : IsFiniteSet(Ahead(q, S, g)) /\ Cardinality(Ahead(q, S, g)) \in Nat
  BY <1>1, Finite
<1>3. ASSUME NEW g \in S, Pre(q, g, h)
      PROVE  Cardinality(Ahead(q, S, g)) < Cardinality(Ahead(q, S, h))
  <2>1. Ahead(q, S, g) \in SUBSET Ahead(q, S, h)
    BY <1>3, RowOrder DEF Ahead
  <2>2. g \in Ahead(q, S, h) /\ g \notin Ahead(q, S, g)
    BY <1>3, RowOrder DEF Ahead
  <2>3. Cardinality(Ahead(q, S, g)) <= Cardinality(Ahead(q, S, h))
        /\ Cardinality(Ahead(q, S, g)) # Cardinality(Ahead(q, S, h))
    BY <1>2, <2>1, <2>2, FS_Subset
  <2>4. QED
    BY <1>2, <2>3
<1>4. QED
  BY <1>2, <1>3

(* ORDER BY ... LIMIT n: a prefix of the rows, which is all of them when there
   is no limit or fewer rows than it, and has n rows otherwise. *)
LEMMA FirstIs ==
  ASSUME TypeOK, NEW q, NEW S \in SUBSET DOMAIN rows, NEW n \in Int
  PROVE  /\ First(q, S, n) \in SUBSET S
         /\ \A h \in First(q, S, n), g \in S \ First(q, S, n) : Pre(q, h, g)
         /\ n < 0 \/ Cardinality(S) <= n \/ Cardinality(First(q, S, n)) < n => First(q, S, n) = S
<1> DEFINE F == First(q, S, n)
<1>1. CASE n < 0
  <2>1. F = S
    BY <1>1 DEF First
  <2>2. QED
    BY <2>1
<1>2. CASE n >= 0
  <2>1. F = {h \in S : Cardinality(Ahead(q, S, h)) < n}
    BY <1>2 DEF First, Ahead, Pre
  <2>2. ASSUME NEW h \in F, NEW g \in S \ F PROVE Pre(q, h, g)
    BY <2>1, <2>2, AheadIs, RowOrder
  <2>3. CASE Cardinality(S) <= n
    <3>1. ASSUME NEW h \in S PROVE Cardinality(Ahead(q, S, h)) < Cardinality(S)
      <4>1. Ahead(q, S, h) \in SUBSET S /\ h \notin Ahead(q, S, h)
        BY RowOrder DEF Ahead
      <4>2. IsFiniteSet(S) /\ Cardinality(S) \in Nat /\ Cardinality(Ahead(q, S, h)) \in Nat
        BY <4>1, Finite
      <4>3. QED
        BY <4>1, <4>2, FS_Subset
    <3>2. \A h \in S : Cardinality(Ahead(q, S, h)) \in Nat /\ Cardinality(S) \in Nat
      BY AheadIs, Finite
    <3>3. QED
      BY <2>1, <2>2, <2>3, <3>1, <3>2
  <2>4. CASE Cardinality(F) < n
    <3>1. SUFFICES ASSUME F # S PROVE FALSE
      BY <2>1, <2>2
    <3>2. PICK T : T = {Cardinality(Ahead(q, S, h)) : h \in S \ F}
      BY ZenonT(60)
    <3>3. T \in SUBSET Nat /\ T # {}
      BY <2>1, <3>1, <3>2, AheadIs
    <3>4. PICK m \in T : \A l \in T : m <= l
      BY <3>3, Least
    <3>5. PICK h \in S \ F : m = Cardinality(Ahead(q, S, h))
      BY <3>2, <3>4
    <3>6. Ahead(q, S, h) \in SUBSET F
      <4>1. ASSUME NEW g \in Ahead(q, S, h), g \notin F PROVE FALSE
        <5>1. g \in S \ F /\ Pre(q, g, h) /\ g \in DOMAIN rows /\ h \in DOMAIN rows
          BY <4>1 DEF Ahead
        <5>2. m <= Cardinality(Ahead(q, S, g))
          BY <3>2, <3>4, <5>1
        <5>3. Cardinality(Ahead(q, S, g)) < m /\ m \in Nat /\ Cardinality(Ahead(q, S, g)) \in Nat
          BY <3>5, <5>1, AheadIs
        <5>4. QED
          BY <5>2, <5>3
      <4>2. QED
        BY <4>1
    <3>7. IsFiniteSet(F) /\ Cardinality(F) \in Nat
      BY <2>1, Finite
    <3>8. m <= Cardinality(F)
      BY <3>5, <3>6, <3>7, FS_Subset
    <3>9. ~(m < n) /\ m \in Nat
      BY <2>1, <3>3, <3>4, <3>5
    <3>10. QED
      BY <2>4, <3>7, <3>8, <3>9
  <2>5. QED
    BY <1>2, <2>1, <2>2, <2>3, <2>4
<1>3. QED
  BY <1>1, <1>2

(* messages.last() *)
LEMMA LastIs ==
  ASSUME TypeOK, NEW q, NEW S \in SUBSET DOMAIN rows, S # {}
  PROVE  Last(q, S) \in S /\ \A g \in S : g = Last(q, S) \/ Pre(q, g, Last(q, S))
<1> DEFINE Behind(h) == {g \in S : Pre(q, h, g)}
<1>1. \A h \in S : IsFiniteSet(Behind(h)) /\ Cardinality(Behind(h)) \in Nat
  <2>1. \A h : Behind(h) \in SUBSET DOMAIN rows
    OBVIOUS
  <2> HIDE DEF Behind
  <2>2. QED
    BY <2>1, Finite
<1>2. PICK T : T = {Cardinality(Behind(h)) : h \in S}
  BY ZenonT(60)
<1>3. T \in SUBSET Nat /\ T # {}
  <2> HIDE DEF Behind
  <2> QED
    BY <1>1, <1>2
<1>4. PICK m \in T : \A l \in T : m <= l
  BY <1>3, Least
<1>5. PICK h \in S : m = Cardinality(Behind(h))
  BY <1>2, <1>4
<1>6. ASSUME NEW g \in S, Pre(q, h, g) PROVE FALSE
  <2>1. Behind(g) \in SUBSET Behind(h) /\ g \in Behind(h) /\ g \notin Behind(g)
    BY <1>6, RowOrder
  <2> HIDE DEF Behind
  <2>2. Cardinality(Behind(g)) <= Cardinality(Behind(h)) /\ Cardinality(Behind(g)) # Cardinality(Behind(h))
    BY <1>1, <2>1, FS_Subset
  <2>3. Cardinality(Behind(h)) <= Cardinality(Behind(g))
    BY <1>2, <1>4, <1>5
  <2>4. QED
    BY <1>1, <2>2, <2>3
<1>7. \A g \in S : g = h \/ Pre(q, g, h)
  BY <1>6, RowOrder
<1>8. QED
  BY <1>7 DEF Last, Pre

(* The casts: a positive limit is followed by its successor or by none, and of
   the others only u64::MAX, cast to -1, yields LIMIT 0. *)
LEMMA LimitIs ==
  ASSUME NEW q \in Query
  PROVE  /\ Limit(q) \in Int \ {0} /\ LimitPlusOne(q) \in Int
         /\ Limit(q) > 0 => LimitPlusOne(q) = Limit(q) + 1 \/ LimitPlusOne(q) < 0
         /\ Limit(q) < 0 => LimitPlusOne(q) <= 0
<1>1. SignBit \in Nat \ {0, 1} /\ q.page_size \in 0..(2 * SignBit - 1)
  BY StoreAssumption
<1>2. PICK n \in 1..(2 * SignBit - 1) : n = IF q.page_size = 0 THEN 1 ELSE q.page_size
  BY <1>1
<1>3. CASE n < SignBit
  <2>1. Limit(q) = n
    BY <1>2, <1>3 DEF Limit, AsSigned
  <2>2. (n + 1) % (2 * SignBit) = n + 1
    BY <1>1, <1>3
  <2>3. QED
    BY <1>1, <1>3, <2>1, <2>2 DEF LimitPlusOne, AsSigned
<1>4. CASE n >= SignBit
  <2>1. Limit(q) = n - 2 * SignBit
    BY <1>1, <1>2, <1>4 DEF Limit, AsSigned
  <2>2. CASE n = 2 * SignBit - 1
    <3>1. (Limit(q) + 1) % (2 * SignBit) = 0
      BY <1>1, <2>1, <2>2
    <3>2. QED
      BY <1>1, <2>1, <2>2, <3>1 DEF LimitPlusOne, AsSigned
  <2>3. CASE n # 2 * SignBit - 1
    <3>1. (Limit(q) + 1) % (2 * SignBit) = n + 1
      BY <1>1, <1>4, <2>1, <2>3
    <3>2. QED
      BY <1>1, <1>4, <2>1, <2>3, <3>1 DEF LimitPlusOne, AsSigned
  <2>4. QED
    BY <2>2, <2>3
<1>5. QED
  BY <1>1, <1>3, <1>4
-----------------------------------------------------------------------------
(* What one page holds of the rows S it is selected from: a prefix, and all of
   them when the response carries no cursor. *)
LEMMA PageIs ==
  ASSUME TypeOK, NEW S \in SUBSET DOMAIN rows,
         NEW fetched, fetched = First(query, S, LimitPlusOne(query)),
         NEW taken, taken = First(query, fetched, Limit(query))
  PROVE  /\ taken \in SUBSET S
         /\ \A h \in taken, g \in S \ taken : Pre(query, h, g)
         /\ /\ LimitPlusOne(query) # 0
            /\ Cardinality(fetched) <= Limit(query) \/ taken = {}
            => taken = S
<1> DEFINE L == Limit(query)
           M == LimitPlusOne(query)
<1>1. /\ L \in Int \ {0} /\ M \in Int /\ (L > 0 => M = L + 1 \/ M < 0) /\ (L < 0 => M <= 0)
  BY LimitIs DEF TypeOK
<1> HIDE DEF L, M
<1>2. /\ fetched \in SUBSET S /\ \A h \in fetched, g \in S \ fetched : Pre(query, h, g)
      /\ M < 0 \/ Cardinality(fetched) < M => fetched = S
  BY <1>1, FirstIs DEF M
<1>3. /\ taken \in SUBSET fetched /\ \A h \in taken, g \in fetched \ taken : Pre(query, h, g)
      /\ L < 0 \/ Cardinality(fetched) <= L \/ Cardinality(taken) < L => taken = fetched
  <2>1. fetched \in SUBSET DOMAIN rows /\ taken = First(query, fetched, L) /\ L \in Int
    BY <1>1, <1>2 DEF L
  <2>2. QED
    BY <2>1, FirstIs
<1>4. Cardinality(fetched) \in Nat
  BY <1>2, Finite
<1>5. ASSUME M # 0, Cardinality(fetched) <= L \/ taken = {} PROVE taken = S
  <2>1. CASE L < 0
    BY <1>1, <1>2, <1>3, <1>5, <2>1
  <2>2. CASE L > 0 /\ taken = {}
    <3>1. taken = fetched /\ Cardinality(fetched) = 0
      BY <1>1, <1>3, <2>2, FS_EmptySet
    <3>2. QED
      BY <1>1, <1>2, <2>2, <3>1
  <2>3. CASE L > 0 /\ Cardinality(fetched) <= L
    BY <1>1, <1>2, <1>3, <1>4, <2>3
  <2>4. QED
    BY <1>1, <1>5, <2>1, <2>2, <2>3
<1>6. QED
  BY <1>2, <1>3, <1>5 DEF L, M
-----------------------------------------------------------------------------
(* Type correctness. *)
LEMMA TypePreserved == TypeOK /\ [Next]_vars => TypeOK'
<1> SUFFICES ASSUME TypeOK, [Next]_vars PROVE TypeOK'
  OBVIOUS
<1> USE StoreAssumption DEF TypeOK
<1>1. ASSUME NEW h \in Hash, NEW now \in Time, Put(h, now) PROVE TypeOK'
  <2>1. (IF Stamp[h] = NoStamp THEN now ELSE Stamp[h]) \in Int
    OBVIOUS
  <2>2. /\ rows' = Stored(h, now)
        /\ UNCHANGED <<phase, query, cursor, key, page, got, base, swept, issued, moved>>
    BY <1>1 DEF Put, walk
  <2>3. DOMAIN rows' = DOMAIN rows \cup {h} /\ rows' \in [DOMAIN rows \cup {h} -> Int]
    BY <2>1, <2>2 DEF Stored
  <2>4. QED
    BY <2>2, <2>3
<1>2. ASSUME NEW S \in SUBSET DOMAIN rows, Keep(S) PROVE TypeOK'
  <2>1. DOMAIN rows' = S /\ rows' \in [S -> Int]
    BY <1>2 DEF Keep
  <2>2. /\ UNCHANGED <<phase, query, cursor, key, page, got, issued, moved>>
        /\ base' \in SUBSET S /\ swept' \in SUBSET Hash
    BY <1>2 DEF Keep, walk
  <2>3. QED
    BY <2>1, <2>2
<1>3. CASE \E cutoff \in Cutoffs : DeleteOlderThan(cutoff)
  BY <1>2, <1>3 DEF DeleteOlderThan
<1>4. CASE \E max \in Capacities : EnforceCapacity(max)
  BY ZenonT(60), <1>2, <1>4 DEF EnforceCapacity
<1>5. CASE Start
  BY <1>5 DEF Start, Matching
<1>6. CASE Resolve
  BY <1>6 DEF Resolve, Key
<1>7. CASE Select
  <2>1. PICK S, fetched, taken :
          /\ S = {h \in Matching(query) : After(query, key, h)}
          /\ fetched = First(query, S, LimitPlusOne(query))
          /\ taken = First(query, fetched, Limit(query))
          /\ page' = taken /\ got' = got \cup page /\ key' = None
          /\ \/ taken # {} /\ cursor' = Last(query, taken) /\ issued' = Key(cursor') /\ phase' = "resolve"
             \/ cursor' = None /\ issued' = None /\ phase' = "done"
          /\ UNCHANGED <<rows, query, base, swept, moved>>
    BY ZenonT(60), <1>7 DEF Select
  <2>2. S \in SUBSET DOMAIN rows
    BY <2>1 DEF Matching
  <2>3. taken \in SUBSET DOMAIN rows
    BY <2>1, <2>2, PageIs
  <2>4. taken # {} => Last(query, taken) \in taken
    BY <2>3, LastIs
  <2>5. cursor' \in Hash \cup {None} /\ issued' \in (Int \X Hash) \cup {None}
    BY <2>1, <2>3, <2>4 DEF Key
  <2>6. QED
    BY <2>1, <2>3, <2>5
<1>8. CASE StatementFails
  BY <1>8 DEF StatementFails
<1>9. CASE UNCHANGED vars
  BY <1>9 DEF vars
<1>10. QED
  BY <1>1, <1>3, <1>4, <1>5, <1>6, <1>7, <1>8, <1>9 DEF Next

(* Every variable keeps its type. *)
THEOREM TypeCorrect == Spec => []TypeOK
<1>1. Init => TypeOK
  BY DEF Init, TypeOK
<1>2. QED
  BY <1>1, TypePreserved, PTL DEF Spec
-----------------------------------------------------------------------------
(* What the walk still owes. *)
Missed == base \ (page \cup got)

(* A timestamp is the row's sort_time; rows do not stop to match; what was
   delivered is stored or was swept. *)
RowInv ==
  /\ \A h \in DOMAIN rows : Stamp[h] # NoStamp => rows[h] = Stamp[h]
  /\ base \in SUBSET Matching(query)
  /\ page \cup got \in SUBSET (DOMAIN rows \cup swept)

(* There is a cursor after a page, a key between the two statements. *)
PhaseInv ==
  /\ phase = "idle" => cursor = None /\ page = {} /\ got = {} /\ base = {} /\ swept = {}
  /\ cursor # None => cursor \in page /\ phase \in {"resolve", "select"}
  /\ key # None => phase = "select"

(* Only a swept message without timestamp can come back with another key. *)
IssuedInv ==
  /\ \A h \in moved : h \in swept /\ Stamp[h] = NoStamp
  /\ cursor = None => issued = None
  /\ cursor # None /\ cursor \notin swept => issued = Key(cursor)
  /\ cursor # None /\ Stamp[cursor] # NoStamp => issued = <<Stamp[cursor], cursor>>

(* Without a sweep the cursor is the last row delivered and has its key. *)
AdvanceInv ==
  swept = {} =>
    /\ PagesAdvance
    /\ cursor # None => \A p \in page \cup got : p = cursor \/ Pre(query, p, cursor)
    /\ phase = "select" => key = IF cursor = None THEN None ELSE Key(cursor)
    /\ phase \in {"resolve", "select"} /\ cursor = None => page = {} /\ got = {}

(* What is owed lies behind the cursor as it was issued and behind its key. *)
WalkInv ==
  moved = {} /\ LimitPlusOne(query) # 0 =>
    /\ phase = "done" => Missed = {}
    /\ issued # None => \A b \in Missed : Before(query, issued, Key(b))
    /\ key # None => \A b \in Missed : Before(query, key, Key(b))

IInv == TypeOK /\ RowInv /\ PhaseInv /\ IssuedInv /\ AdvanceInv /\ WalkInv

(* A put adds a row and moves none. *)
LEMMA PutPreserves ==
  ASSUME IInv, NEW h \in Hash, NEW now \in Time, Put(h, now)
  PROVE  RowInv' /\ PhaseInv' /\ IssuedInv' /\ AdvanceInv' /\ WalkInv'
<1>1. /\ h \notin DOMAIN rows /\ DOMAIN rows' = DOMAIN rows \cup {h}
      /\ \A g \in DOMAIN rows : rows'[g] = rows[g]
      /\ Stamp[h] # NoStamp => rows'[h] = Stamp[h]
      /\ UNCHANGED <<phase, query, cursor, key, page, got, base, swept, issued, moved>>
  BY DEF Put, Stored, walk
<1>2. \A g \in DOMAIN rows : Key(g)' = Key(g) /\ (Matches(query, g)' <=> Matches(query, g))
  BY <1>1 DEF Key, Matches
<1>3. RowInv'
  BY <1>1, <1>2 DEF IInv, RowInv, Matching
<1>4. PhaseInv'
  BY <1>1 DEF IInv, PhaseInv
<1>5. AdvanceInv'
  <2> SUFFICES ASSUME swept = {} PROVE AdvanceInv'
    BY <1>1 DEF AdvanceInv
  <2>1. page \in SUBSET DOMAIN rows /\ got \in SUBSET DOMAIN rows /\ (cursor # None => cursor \in DOMAIN rows)
    BY DEF IInv, RowInv, PhaseInv
  <2>2. \A f, g \in DOMAIN rows : Pre(query, f, g)' <=> Pre(query, f, g)
    BY <1>1, <1>2 DEF Pre, Before
  <2>3. QED
    BY <1>1, <1>2, <2>1, <2>2 DEF IInv, AdvanceInv, PagesAdvance, Pre
<1>6. WalkInv'
  <2> SUFFICES ASSUME moved = {}, LimitPlusOne(query) # 0 PROVE WalkInv'
    BY <1>1 DEF WalkInv, LimitPlusOne, Limit
  <2>1. Missed' = Missed /\ Missed \in SUBSET DOMAIN rows
    BY <1>1 DEF Missed, IInv, TypeOK
  <2>2. QED
    BY <1>1, <1>2, <2>1 DEF IInv, WalkInv, Before
<1>7. IssuedInv'
  <2>1. cursor # None /\ cursor \notin swept => cursor \in DOMAIN rows
    BY DEF IInv, RowInv, PhaseInv
  <2>2. QED
    BY <1>1, <1>2, <2>1 DEF IInv, IssuedInv
<1>8. QED
  BY <1>3, <1>4, <1>5, <1>6, <1>7

(* A sweep deletes rows and moves none. *)
LEMMA KeepPreserves ==
  ASSUME IInv, NEW S \in SUBSET DOMAIN rows, Keep(S)
  PROVE  RowInv' /\ PhaseInv' /\ IssuedInv' /\ AdvanceInv' /\ WalkInv'
<1>1. /\ DOMAIN rows' = S /\ \A g \in S : rows'[g] = rows[g]
      /\ UNCHANGED <<phase, query, cursor, key, page, got, issued, moved>>
      /\ base' = base \cap S
      /\ swept' = IF phase = "idle" THEN {} ELSE swept \cup (DOMAIN rows \ S)
  BY DEF Keep, walk
<1>2. \A g \in S : Key(g)' = Key(g) /\ (Matches(query, g)' <=> Matches(query, g))
  BY <1>1 DEF Key, Matches
<1>3. RowInv'
  BY <1>1, <1>2 DEF IInv, RowInv, PhaseInv, Matching
<1>4. PhaseInv'
  BY <1>1 DEF IInv, PhaseInv
<1>5. AdvanceInv'
  <2>1. CASE phase = "idle"
    BY <1>1, <2>1 DEF IInv, PhaseInv, AdvanceInv, PagesAdvance
  <2>2. CASE phase # "idle" /\ swept' = {}
    <3>1. swept = {} /\ S = DOMAIN rows
      BY <1>1, <2>2
    <3>2. page \in SUBSET S /\ got \in SUBSET S /\ (cursor # None => cursor \in S)
      BY <3>1 DEF IInv, RowInv, PhaseInv
    <3>3. \A f, g \in S : Pre(query, f, g)' <=> Pre(query, f, g)
      BY <1>1, <1>2 DEF Pre, Before
    <3>4. QED
      BY <1>1, <1>2, <3>1, <3>2, <3>3 DEF IInv, AdvanceInv, PagesAdvance, Pre
  <2>3. QED
    BY <2>1, <2>2 DEF AdvanceInv
<1>6. WalkInv'
  <2> SUFFICES ASSUME moved = {}, LimitPlusOne(query) # 0 PROVE WalkInv'
    BY <1>1 DEF WalkInv, LimitPlusOne, Limit
  <2>1. Missed' \in SUBSET Missed /\ Missed' \in SUBSET S
    BY <1>1 DEF Missed, IInv, TypeOK
  <2>2. QED
    BY <1>1, <1>2, <2>1 DEF IInv, WalkInv, Before
<1>7. IssuedInv'
  <2>1. swept \in SUBSET swept'
    BY <1>1 DEF IInv, PhaseInv
  <2>2. cursor # None /\ cursor \notin swept' => cursor \in S
    BY <1>1, <2>1 DEF IInv, RowInv, PhaseInv
  <2>3. QED
    BY <1>1, <1>2, <2>1, <2>2 DEF IInv, IssuedInv
<1>8. QED
  BY <1>3, <1>4, <1>5, <1>6, <1>7

(* A page continues behind the cursor's key and takes what is owed in order. *)
LEMMA SelectPreserves ==
  ASSUME IInv, Select
  PROVE  RowInv' /\ PhaseInv' /\ IssuedInv' /\ AdvanceInv' /\ WalkInv'
<1>1. PICK S, fetched, taken :
        /\ S = {h \in Matching(query) : After(query, key, h)}
        /\ fetched = First(query, S, LimitPlusOne(query))
        /\ taken = First(query, fetched, Limit(query))
        /\ page' = taken /\ got' = got \cup page /\ key' = None
        /\ \/ taken # {} /\ cursor' = Last(query, taken) /\ issued' = Key(cursor') /\ phase' = "resolve"
           \/ /\ ~(Cardinality(fetched) > Limit(query)) \/ taken = {}
              /\ cursor' = None /\ issued' = None /\ phase' = "done"
        /\ phase = "select" /\ UNCHANGED <<rows, query, base, swept, moved>>
  BY ZenonT(60) DEF Select
<1>2. TypeOK /\ S \in SUBSET DOMAIN rows
  BY <1>1 DEF IInv, Matching
<1>3. /\ taken \in SUBSET S /\ \A h \in taken, g \in S \ taken : Pre(query, h, g)
      /\ /\ LimitPlusOne(query) # 0
         /\ Cardinality(fetched) <= Limit(query) \/ taken = {}
         => taken = S
  <2>1. fetched = First(query, S, LimitPlusOne(query)) /\ taken = First(query, fetched, Limit(query))
    BY <1>1
  <2>2. QED
    BY <1>2, <2>1, PageIs
<1>4. /\ phase' = "resolve" => /\ cursor' \in taken /\ cursor' # None
                               /\ \A g \in taken : g = cursor' \/ Pre(query, g, cursor')
                               /\ issued' = Key(cursor')
      /\ phase' = "done" => cursor' = None /\ issued' = None
      /\ phase' \in {"resolve", "done"}
  <2>1. None \notin DOMAIN rows
    BY <1>2, StoreAssumption DEF TypeOK
  <2>2. taken # {} => /\ Last(query, taken) \in taken
                      /\ \A g \in taken : g = Last(query, taken) \/ Pre(query, g, Last(query, taken))
    BY <1>2, <1>3, LastIs
  <2>3. QED
    BY <1>1, <1>2, <1>3, <2>1, <2>2
<1>5. LimitPlusOne(query) # 0 /\ phase' = "done" => taken = S
  <2>1. fetched \in SUBSET S
    BY <1>1, <1>2, FirstIs, LimitIs DEF TypeOK
  <2>2. Cardinality(fetched) \in Nat /\ Limit(query) \in Int
    BY <1>2, <2>1, Finite, LimitIs DEF TypeOK
  <2>3. QED
    BY <1>1, <1>3, <2>2
<1>6. RowInv'
  BY ZenonT(90), <1>1, <1>2, <1>3 DEF IInv, RowInv, Matching, Matches
<1>7. PhaseInv'
  BY <1>1, <1>4 DEF PhaseInv
<1>8. AdvanceInv'
  <2> SUFFICES ASSUME swept = {} PROVE AdvanceInv'
    BY <1>1 DEF AdvanceInv
  <2>1. page \in SUBSET DOMAIN rows /\ got \in SUBSET DOMAIN rows /\ (cursor # None => cursor \in DOMAIN rows)
    BY DEF IInv, RowInv, PhaseInv
  <2>2. ASSUME NEW g \in got \cup page, NEW p \in taken PROVE Pre(query, g, p)
    <3>1. cursor # None /\ key = Key(cursor) /\ (g = cursor \/ Pre(query, g, cursor))
      BY <1>1 DEF IInv, AdvanceInv
    <3>2. key # None
      BY <1>2, <2>1, <3>1, StoreAssumption DEF TypeOK, Key
    <3>3. Pre(query, cursor, p)
      BY <1>1, <1>3, <3>1, <3>2 DEF After, Pre
    <3>4. g \in DOMAIN rows /\ p \in DOMAIN rows /\ cursor \in DOMAIN rows
      BY <1>2, <1>3, <2>1, <3>1
    <3>5. QED
      BY <1>2, <3>1, <3>3, <3>4, RowOrder
  <2>3. \A g, p : Pre(query, g, p)' <=> Pre(query, g, p)
    BY <1>1 DEF Pre, Before, Key
  <2>4. PagesAdvance'
    BY <1>1, <2>2, <2>3 DEF PagesAdvance, Pre
  <2>5. (cursor # None => \A p \in page \cup got : p = cursor \/ Pre(query, p, cursor))'
    <3>1. cursor' # None => \A p \in page' \cup got' : p = cursor' \/ Pre(query, p, cursor')
      BY <1>1, <1>4, <2>2
    <3>2. QED
      BY <1>1, <3>1 DEF Pre, Before, Key
  <2>6. phase' # "select" /\ (phase' = "resolve" => cursor' # None)
    BY <1>4
  <2>7. QED
    BY <1>4, <2>4, <2>5, <2>6 DEF AdvanceInv
<1>9. WalkInv'
  <2> SUFFICES ASSUME moved = {}, LimitPlusOne(query) # 0 PROVE WalkInv'
    BY <1>1 DEF WalkInv, LimitPlusOne, Limit
  <2>1. Missed' \in SUBSET (S \ taken)
    <3>1. ASSUME NEW b \in Missed' PROVE b \in S \ taken
      <4>1. b \in Missed /\ b \in Matching(query) /\ b \notin taken
        BY <1>1, <3>1 DEF Missed, IInv, RowInv
      <4>2. After(query, key, b)
        BY <4>1 DEF IInv, WalkInv, After
      <4>3. QED
        BY <1>1, <4>1, <4>2
    <3>2. QED
      BY <3>1
  <2>2. CASE phase' = "done"
    BY <1>1, <1>4, <1>5, <2>1, <2>2 DEF WalkInv
  <2>3. CASE phase' = "resolve"
    <3>1. issued' = Key(cursor') /\ \A b : Key(b)' = Key(b)
      BY ZenonT(60), <1>1, <1>4, <2>3 DEF Key
    <3>2. \A b \in Missed' : Pre(query, cursor', b)
      BY <1>3, <1>4, <2>1, <2>3
    <3>3. QED
      BY <1>1, <2>3, <3>1, <3>2 DEF WalkInv, Pre, Before
  <2>4. QED
    BY <1>4, <2>2, <2>3
<1>10. IssuedInv'
  <2>1. \A h : Key(h)' = Key(h)
    BY <1>1 DEF Key
  <2>2. ASSUME phase' = "resolve" PROVE IssuedInv'
    <3>1. cursor' \in DOMAIN rows /\ issued' = Key(cursor') /\ cursor' # None
      BY <1>2, <1>3, <1>4, <2>2
    <3>2. Stamp[cursor'] # NoStamp => issued' = <<Stamp[cursor'], cursor'>>
      BY <3>1 DEF IInv, RowInv, Key
    <3>3. issued' = Key(cursor)'
      BY <1>1, <3>1 DEF Key
    <3>4. QED
      BY <1>1, <3>1, <3>2, <3>3 DEF IInv, IssuedInv
  <2>3. ASSUME phase' = "done" PROVE IssuedInv'
    BY <1>1, <1>4, <2>3 DEF IInv, IssuedInv
  <2>4. QED
    BY <1>4, <2>2, <2>3
<1>11. QED
  BY <1>6, <1>7, <1>8, <1>9, <1>10

(* Start, Resolve and StatementFails leave table and pages alone. *)
LEMMA ClientPreserves ==
  ASSUME IInv, Start \/ Resolve \/ StatementFails
  PROVE  RowInv' /\ PhaseInv' /\ IssuedInv' /\ AdvanceInv' /\ WalkInv'
<1>1. UNCHANGED <<rows, query, page, got, swept>>
  BY DEF Start, Resolve, StatementFails
<1>2. /\ \A h : Key(h)' = Key(h) /\ (Matches(query, h)' <=> Matches(query, h))
      /\ \A g, h : Pre(query, g, h)' <=> Pre(query, g, h)
      /\ Matching(query)' = Matching(query)
  BY <1>1 DEF Key, Matches, Pre, Before, Matching
<1>3. CASE Start
  <2>1. cursor = None /\ cursor' = None /\ key' = key /\ key = None /\ phase' = "resolve"
        /\ page = {} /\ got = {} /\ base' = Matching(query)
    BY <1>3 DEF Start, IInv, PhaseInv
  <2>2. issued = None /\ UNCHANGED <<issued, moved>>
    BY <1>3, <2>1 DEF Start, IInv, IssuedInv
  <2>3. QED
    BY ZenonT(60), <1>1, <1>2, <2>1, <2>2
    DEF IInv, RowInv, PhaseInv, IssuedInv, AdvanceInv, WalkInv, PagesAdvance
<1>4. CASE Resolve
  <2>1. /\ phase = "resolve" /\ phase' = "select" /\ UNCHANGED <<cursor, base, issued>>
        /\ key' = IF cursor # None /\ cursor \in DOMAIN rows THEN Key(cursor) ELSE None
        /\ moved' = IF key' \in {None, issued} THEN moved ELSE moved \cup {cursor}
    BY <1>4 DEF Resolve
  <2>2. Missed' = Missed /\ LimitPlusOne(query)' = LimitPlusOne(query)
    BY <1>1, <2>1 DEF Missed, LimitPlusOne, Limit
  <2>3. RowInv' /\ PhaseInv'
    BY <1>1, <1>2, <2>1 DEF IInv, RowInv, PhaseInv
  <2>4. AdvanceInv'
    <3>1. swept = {} /\ cursor # None => cursor \in DOMAIN rows
      BY DEF IInv, RowInv, PhaseInv
    <3>2. QED
      BY <1>1, <1>2, <2>1, <3>1 DEF IInv, AdvanceInv, PagesAdvance, Pre
  <2>5. WalkInv'
    <3>1. moved' = {} => moved = {} /\ key' \in {None, issued}
      BY <2>1
    <3>2. QED
      BY <1>1, <1>2, <2>1, <2>2, <3>1 DEF IInv, WalkInv, Before
  <2>6. IssuedInv'
    <3>1. ASSUME key' \notin {None, issued} PROVE cursor \in swept /\ Stamp[cursor] = NoStamp
      <4>1. cursor # None /\ cursor \in DOMAIN rows /\ Key(cursor) # issued
        BY <2>1, <3>1
      <4>2. Stamp[cursor] # NoStamp => Key(cursor) = <<Stamp[cursor], cursor>>
        BY <4>1 DEF IInv, RowInv, Key
      <4>3. QED
        BY <4>1, <4>2 DEF IInv, IssuedInv
    <3>2. \A h \in moved' : h \in swept' /\ Stamp[h] = NoStamp
      BY <1>1, <2>1, <3>1 DEF IInv, IssuedInv
    <3>3. QED
      BY <1>1, <1>2, <2>1, <3>2 DEF IInv, IssuedInv
  <2>7. QED
    BY <2>3, <2>4, <2>5, <2>6
<1>5. CASE StatementFails
  <2>1. phase' = "failed" /\ cursor' = None /\ issued' = None /\ key' = None /\ UNCHANGED <<base, moved>>
    BY <1>5 DEF StatementFails
  <2>2. QED
    BY ZenonT(60), <1>1, <1>2, <2>1
    DEF IInv, RowInv, PhaseInv, IssuedInv, AdvanceInv, WalkInv, PagesAdvance, Pre
<1>6. QED
  BY <1>3, <1>4, <1>5

(* The table, the cursor and the pages fit together after every step. *)
THEOREM InductiveInvariant == Spec => []IInv
<1>1. Init => IInv
  <2> SUFFICES ASSUME Init PROVE IInv
    OBVIOUS
  <2>1. TypeOK
    BY StoreAssumption DEF Init, TypeOK
  <2>2. QED
    BY <2>1 DEF Init, IInv, RowInv, PhaseInv, IssuedInv, AdvanceInv, WalkInv, PagesAdvance, Missed
<1>2. IInv /\ [Next]_vars => IInv'
  <2> SUFFICES ASSUME IInv, [Next]_vars PROVE IInv'
    OBVIOUS
  <2>1. TypeOK'
    BY TypePreserved DEF IInv
  <2>2. CASE \E h \in Hash, now \in Time : Put(h, now)
    BY <2>1, <2>2, PutPreserves DEF IInv
  <2>3. CASE \E cutoff \in Cutoffs : DeleteOlderThan(cutoff)
    BY <2>1, <2>3, KeepPreserves DEF IInv, DeleteOlderThan
  <2>4. CASE \E max \in Capacities : EnforceCapacity(max)
    BY ZenonT(60), <2>1, <2>4, KeepPreserves DEF IInv, EnforceCapacity
  <2>5. CASE Select
    BY <2>1, <2>5, SelectPreserves DEF IInv
  <2>6. CASE Start \/ Resolve \/ StatementFails
    BY <2>1, <2>6, ClientPreserves DEF IInv
  <2>7. CASE UNCHANGED vars
    BY ZenonT(60), <2>1, <2>7 DEF vars, IInv, RowInv, PhaseInv, IssuedInv, AdvanceInv, WalkInv, PagesAdvance, Missed,
         Pre, Before, Key, Matching, Matches, LimitPlusOne, Limit
  <2>8. QED
    BY <2>2, <2>3, <2>4, <2>5, <2>6, <2>7 DEF Next
<1>3. QED
  BY <1>1, <1>2, PTL DEF Spec

(* Whatever is put and swept between its statements, a walk that ends has
   delivered all that matched from its beginning on, unless one of its cursors
   was swept and stored again under another sort_time, which takes a message
   without timestamp, or its page_size is u64::MAX. *)
THEOREM WalksAreComplete == Spec => []CompleteWalk
<1>1. IInv => CompleteWalk
  BY DEF IInv, IssuedInv, WalkInv, CompleteWalk, Missed
<1>2. QED
  BY <1>1, InductiveInvariant, PTL

(* Without sweeps the pages follow each other in query order. *)
THEOREM PagesAreOrdered == Spec => []PagesAdvance
<1>1. IInv => PagesAdvance
  BY DEF IInv, AdvanceInv, PagesAdvance
<1>2. QED
  BY <1>1, InductiveInvariant, PTL
-----------------------------------------------------------------------------
(* While nothing is swept, every page that carries a cursor brings messages that
   the client has not seen. *)
PagesAreNew ==
  [][phase = "select" /\ phase' = "resolve" /\ swept = {} =>
       Cardinality(page' \cup got') > Cardinality(page \cup got)]_vars

(* Why a walk through a store that is only written to ends: each of its requests
   but the last adds to what was delivered, which is no more than all messages. *)
THEOREM WalksMakeProgress == Spec => PagesAreNew
<1>1. ASSUME IInv, IInv', Next, phase = "select", phase' = "resolve", swept = {}
      PROVE  Cardinality(page' \cup got') > Cardinality(page \cup got)
  <2>1. Select
    <3>1. ASSUME UNCHANGED walk PROVE FALSE
      BY <1>1, <3>1 DEF walk
    <3>2. ASSUME NEW S, Keep(S) PROVE FALSE
      BY <3>1, <3>2 DEF Keep
    <3>3. QED
      BY ZenonT(60), <1>1, <3>1, <3>2
      DEF Next, Put, DeleteOlderThan, EnforceCapacity, Start, Resolve, StatementFails
  <2>2. /\ page' # {} /\ got' = got \cup page /\ UNCHANGED <<rows, query, swept>>
    BY ZenonT(60), <1>1, <2>1 DEF Select
  <2>3. /\ page' \subseteq DOMAIN rows /\ got' \subseteq DOMAIN rows
        /\ \A g \in got', p \in page' : Pre(query, g, p)
    <3>1. RowInv' /\ PagesAdvance' /\ swept' = {}
      BY <1>1, <2>2 DEF IInv, AdvanceInv, PagesAdvance
    <3>2. \A g, p : Before(query, Key(g), Key(p))' <=> Pre(query, g, p)
      BY <2>2 DEF Pre, Before, Key
    <3>3. page' \subseteq DOMAIN rows /\ got' \subseteq DOMAIN rows
      BY <2>2, <3>1 DEF RowInv
    <3>4. \A g \in got', p \in page' : Before(query, Key(g), Key(p))'
      BY <3>1, ZenonT(60) DEF PagesAdvance
    <3>5. QED
      BY <3>2, <3>3, <3>4, ZenonT(60)
  <2>4. TypeOK
    BY <1>1 DEF IInv
  <2>5. \A p \in page' : p \notin got'
    BY <2>3, <2>4, RowOrder, ZenonT(60)
  <2>6. page' \cup got' \in SUBSET DOMAIN rows
    BY <2>3
  <2>7. page \cup got \in SUBSET (page' \cup got') /\ page \cup got # page' \cup got'
    BY <2>2, <2>5
  <2>8. IsFiniteSet(page' \cup got') /\ Cardinality(page' \cup got') \in Nat
    BY <2>4, <2>6, Finite
  <2>9. /\ IsFiniteSet(page \cup got)
        /\ Cardinality(page \cup got) <= Cardinality(page' \cup got')
        /\ Cardinality(page \cup got) # Cardinality(page' \cup got')
    BY <2>7, <2>8, FS_Subset
  <2>10. Cardinality(page \cup got) \in Nat
    BY <2>9, FS_CardinalityType
  <2>11. QED
    BY <2>8, <2>9, <2>10
<1>2. QED
  BY <1>1, InductiveInvariant, PTL DEF Spec, PagesAreNew
-----------------------------------------------------------------------------
(* ORDER BY ... LIMIT n yields no more than n rows. *)
LEMMA FirstIsShort ==
  ASSUME TypeOK, NEW q, NEW S \in SUBSET DOMAIN rows, NEW n \in Nat
  PROVE  Cardinality(First(q, S, n)) <= n
<1> DEFINE F == First(q, S, n)
           rank == [h \in F |-> Cardinality(Ahead(q, S, h))]
<1>1. F = {h \in S : Cardinality(Ahead(q, S, h)) < n}
  BY DEF First, Ahead, Pre
<1>2. \A h \in F : Cardinality(Ahead(q, S, h)) \in 0..(n - 1)
  BY <1>1, AheadIs
<1>3. ASSUME NEW g \in F, NEW h \in F, Cardinality(Ahead(q, S, g)) = Cardinality(Ahead(q, S, h))
      PROVE  g = h
  BY <1>1, <1>3, AheadIs, RowOrder
<1>4. rank \in Injection(F, 0..(n - 1))
  <2> HIDE DEF F
  <2> QED
    BY <1>2, <1>3 DEF Injection, IsInjective
<1>5. IsFiniteSet(0..(n - 1)) /\ Cardinality(0..(n - 1)) = n
  BY FS_Interval
<1>6. QED
  BY <1>4, <1>5, FS_Injection

(* What enforce_capacity leaves, below 2^63: max rows, or all if there are no
   more, and none that is older than one it deleted.  From 2^63 on it leaves
   nothing. *)
KeepsNewest(max) ==
  IF max < SignBit
    THEN /\ \A h \in DOMAIN rows', g \in DOMAIN rows \ DOMAIN rows' : Less(Key(g), Key(h))
         /\ Cardinality(DOMAIN rows') =
              IF Cardinality(DOMAIN rows) <= max THEN Cardinality(DOMAIN rows) ELSE max
         /\ \A h \in DOMAIN rows' : rows'[h] = rows[h]
    ELSE rows' = <<>>

(* The sweep as the order of a query sees it. *)
LEMMA SweepIs ==
  ASSUME TypeOK, NEW max \in 0..(2 * SignBit - 1), EnforceCapacity(max)
  PROVE  KeepsNewest(max)
<1> DEFINE q == [forward |-> FALSE]
           S == DOMAIN rows
           newer(h) == {g \in S : Less(Key(h), Key(g))}
<1>1. \A g, h : Pre(q, g, h) <=> Less(Key(h), Key(g))
  BY DEF Pre, Before
<1>2. \A h \in S : newer(h) \in SUBSET S /\ Cardinality(newer(h)) \in Nat
  BY Finite
<1>3. PICK K : K = {h \in S : Cardinality(newer(h)) < AsSigned(max)} /\ rows' = [h \in K |-> rows[h]]
  BY ZenonT(60) DEF EnforceCapacity, Keep
<1>4. CASE max < SignBit
  <2>1. AsSigned(max) = max /\ max \in Nat
    BY <1>4, StoreAssumption DEF AsSigned
  <2>2. First(q, S, max) = {h \in S : Cardinality({g \in S : Pre(q, g, h)}) < max}
    BY <2>1 DEF First, Pre
  <2>3. \A h : {g \in S : Pre(q, g, h)} = newer(h)
    BY <1>1
  <2>4. K = First(q, S, max)
    BY <1>3, <2>1, <2>2, <2>3
  <2>5. DOMAIN rows' = K /\ K \in SUBSET S /\ \A h \in K : rows'[h] = rows[h]
    BY <1>3
  <2>6. \A h \in K, g \in S \ K : Less(Key(g), Key(h))
    BY <1>1, <2>1, <2>4, FirstIs
  <2>7. /\ Cardinality(K) \in Nat /\ Cardinality(S) \in Nat
        /\ Cardinality(K) <= max
        /\ Cardinality(S) <= max \/ Cardinality(K) < max => K = S
    BY <2>1, <2>4, <2>5, Finite, FirstIs, FirstIsShort
  <2>8. Cardinality(K) = IF Cardinality(S) <= max THEN Cardinality(S) ELSE max
    BY <2>1, <2>7
  <2>9. QED
    BY <1>4, <2>5, <2>6, <2>8 DEF KeepsNewest
<1>5. CASE max >= SignBit
  <2>1. AsSigned(max) < 0 /\ AsSigned(max) \in Int
    BY <1>5, StoreAssumption DEF AsSigned
  <2>2. K = {}
    BY <1>2, <1>3, <2>1
  <2>3. QED
    BY <1>3, <1>5, <2>2, StoreAssumption DEF KeepsNewest
<1>6. QED
  BY <1>4, <1>5, StoreAssumption

(* "Keep only the max most recent messages": every capacity sweep does, as long
   as max is below 2^63. *)
SweepsKeepNewest == [][\A max \in Capacities : EnforceCapacity(max) => KeepsNewest(max)]_vars

(* Capacity retention deletes the oldest rows and no more than it has to. *)
THEOREM RetentionKeepsNewest == Spec => SweepsKeepNewest
<1>1. TypeOK => \A max \in Capacities : EnforceCapacity(max) => KeepsNewest(max)
  BY SweepIs, StoreAssumption
<1>2. QED
  BY <1>1, TypeCorrect, PTL DEF SweepsKeepNewest
=============================================================================
