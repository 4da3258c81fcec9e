-------------------------------- MODULE Enr ----------------------------------
(***************************************************************************)
(* The relay-shards fields of an ENR: the codec of waku-enr/src/lib.rs and *)
(* its use in waku-discv5/src/lib.rs.  A byte has Bits bits (8 in the      *)
(* code), cluster and shard are two bytes, the bit vector is VectorBytes   *)
(* (128) long.  A RelayShards is a cluster and a sequence of shards.       *)
(***************************************************************************)
EXTENDS Integers, Sequences, FiniteSets

CONSTANTS Bits, VectorBytes

ASSUME EnrAssumption ==
  Bits \in Nat \ {0} /\ VectorBytes \in Nat \ {0}

(* 1 << n, without a width. *)
Shl[n \in Nat] == IF n = 0 THEN 1 ELSE 2 * Shl[n - 1]

Byte == Shl[Bits]           \* one more than u8::MAX
Missing == <<>>             \* a field the record does not have
Unreadable == [cluster |-> -1, shards |-> <<>>]  \* None or Err

(* RelayShards::new sorts and removes repetitions. *)
NewRelayShards(cluster, S) ==
  [cluster |-> cluster,
   shards |-> CHOOSE q \in [1..Cardinality(S) -> S] : \A i, j \in DOMAIN q : i < j => q[i] < q[j]]

ToBeBytes(v) == <<v \div Byte, v % Byte>>
FromBeBytes(hi, lo) == hi * Byte + lo

(* Mutant: the count is not checked against u8::MAX and is cut to a byte. *)
ToIndicesListUnchecked(rs) ==
  LET n == Len(rs.shards)
  IN ToBeBytes(rs.cluster) \o <<n % Byte>>
       \o [j \in 1..(2 * n) |-> ToBeBytes(rs.shards[(j + 1) \div 2])[2 - (j % 2)]]

(* to_indices_list, which fails when the count does not fit a byte. *)
ToIndicesList(rs) ==
  LET n == Len(rs.shards)
  IN IF n >= Byte THEN Missing
     ELSE ToBeBytes(rs.cluster) \o <<n>>
            \o [j \in 1..(2 * n) |-> ToBeBytes(rs.shards[(j + 1) \div 2])[2 - (j % 2)]]

FromIndicesList(b) ==
  IF Len(b) < 3 THEN Unreadable
  ELSE IF Len(b) # 3 + b[3] * 2 THEN Unreadable
  ELSE [cluster |-> FromBeBytes(b[1], b[2]),
        shards |-> [i \in 1..b[3] |-> FromBeBytes(b[2 * i + 2], b[2 * i + 3])]]

VectorShards == VectorBytes * Bits

(* The bit of shard i, most significant first, in byte i \div Bits. *)
Mask(i) == Shl[Bits - 1 - (i % Bits)]

(* Byte b of the vector, the bits of its shards set one by one. *)
VectorByte(S, b) ==
  LET v[k \in 0..Bits] ==
        IF k = 0 THEN 0 ELSE v[k - 1] + (IF b * Bits + (k - 1) \in S THEN Mask(k - 1) ELSE 0)
  IN v[Bits]

(* to_bit_vector, which fails on a shard that has no bit. *)
ToBitVector(rs) ==
  LET S == {rs.shards[i] : i \in DOMAIN rs.shards}
  IN IF \E s \in S : s >= VectorShards THEN Missing
     ELSE ToBeBytes(rs.cluster) \o [b \in 1..VectorBytes |-> VectorByte(S, b - 1)]

FromBitVector(b) ==
  IF Len(b) # 2 + VectorBytes THEN Unreadable
  ELSE NewRelayShards(FromBeBytes(b[1], b[2]),
         {i \in 0..(VectorShards - 1) : (b[3 + (i \div Bits)] \div Mask(i)) % 2 = 1})

(* enr_relay_shards: the list if there is one, readable or not. *)
EnrRelayShards(e) ==
  IF e.rs # Missing THEN FromIndicesList(e.rs)
  ELSE IF e.rsv # Missing THEN FromBitVector(e.rsv)
  ELSE Unreadable

(* The fields build_waku_enr writes; it fails where the list does. *)
BuildWakuEnr(cluster, S) == [rs |-> ToIndicesList(NewRelayShards(cluster, S)), rsv |-> Missing]

(* What other implementations write for many shards, if their bit order is the
   one this crate assumes; it says that it could not verify it. *)
VectorEnr(cluster, S) == [rs |-> Missing, rsv |-> ToBitVector(NewRelayShards(cluster, S))]
=============================================================================
