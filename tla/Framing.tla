------------------------------ MODULE Framing --------------------------------
(***************************************************************************)
(* The length-prefixed frames of the request-response protocols, as in     *)
(* waku-lightpush/src/lib.rs; the store, filter, metadata and              *)
(* peer-exchange crates have the same four functions with limits of their  *)
(* own.  A byte of a prefix is a digit in base Group, plus Group when      *)
(* another one follows; lengths are unsigned integers below Word.          *)
(***************************************************************************)
EXTENDS Integers, Sequences

CONSTANTS
  Group,       \* 2^7: values of the low bits of a byte
  Word,        \* 2^64
  MaxFrameLen  \* MAX_FRAME_LEN

ASSUME FramingAssumption ==
  Group \in Nat \ {0, 1} /\ Word \in Nat \ {0} /\ MaxFrameLen \in 0..(Word - 1)

(* write_uvarint: the low digits first. *)
WriteUvarint[v \in Nat] ==
  IF v < Group THEN <<v>> ELSE <<Group + (v % Group)>> \o WriteUvarint[v \div Group]

(* write_lp, which does not look at the limit. *)
WriteLp(data) == WriteUvarint[Len(data)] \o data

(* What digit i + 1 counts: 1 << 7 * i, without a width. *)
Weight[i \in Nat] == IF i = 0 THEN 1 ELSE Group * Weight[i - 1]

NoFrame == [ok |-> FALSE, data |-> <<>>]

(* Mutant: the digits are taken in the wrong order. *)
DigitsReversed(s, n) ==
  LET v[i \in 0..n] == IF i = 0 THEN 0 ELSE (v[i - 1] * Group + (s[i] % Group)) % Word
  IN v[n]

(* The number in the first n bytes; bits beyond the word are shifted out. *)
Digits(s, n) ==
  LET v[i \in 0..n] == IF i = 0 THEN 0 ELSE (v[i - 1] + (s[i] % Group) * Weight[i - 1]) % Word
  IN v[n]

(* The bytes of the prefix: up to the first without continuation bit.  None if
   the stream ends before it, or if the next shift would reach the width. *)
PrefixLengths(s) ==
  {n \in DOMAIN s : s[n] < Group /\ \A i \in 1..(n - 1) : s[i] >= Group /\ Weight[i] < Word}

(* read_lp of a stream that holds s and then ends: read_exact needs all of
   the announced bytes. *)
ReadLp(s) ==
  IF PrefixLengths(s) = {} THEN NoFrame
  ELSE LET n == CHOOSE k \in PrefixLengths(s) : TRUE
           len == Digits(s, n)
       IN IF len > MaxFrameLen \/ n + len > Len(s) THEN NoFrame
          ELSE [ok |-> TRUE, data |-> SubSeq(s, n + 1, n + len)]
=============================================================================
