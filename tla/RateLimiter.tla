---------------------------- MODULE RateLimiter ------------------------------
(***************************************************************************)
(* The per-peer token bucket of waku-node/src/ratelimit.rs, one instance   *)
(* per service protocol.  Time is a number of clock ticks, Period of them  *)
(* to a period.  Tokens are counted in units of 1/Period token, so that a  *)
(* tick refills exactly Capacity units; the rounding of f64 is left out.   *)
(*                                                                         *)
(* A window is opened at an arbitrary instant for each peer and counts the *)
(* requests allowed since: what holds of it holds of every window.         *)
(***************************************************************************)
EXTENDS Integers

CONSTANTS
  Peer,
  Capacity,  \* RateLimiter::capacity, after max(1)
  Period,    \* period_secs, in ticks
  MaxTime    \* bound on the clock

ASSUME RateAssumption ==
  /\ Capacity \in Nat \ {0}
  /\ Period \in Nat \ {0}
  /\ MaxTime \in Nat

VARIABLES
  now,     \* Instant::now()
  known,   \* peers with an entry in `buckets`
  tokens,  \* Bucket::tokens, in units
  last,    \* Bucket::last
  denied,  \* peers whose latest request was answered 429
  opened,  \* when the window of a peer was opened
  passed   \* requests allowed in it

vars == <<now, known, tokens, last, denied, opened, passed>>

Full == Capacity * Period

Init ==
  /\ now = 0
  /\ known = {}
  /\ tokens = [p \in Peer |-> Full]
  /\ last = [p \in Peer |-> 0]
  /\ denied = {}
  /\ opened = [p \in Peer |-> 0]
  /\ passed = [p \in Peer |-> 0]

Tick ==
  /\ now < MaxTime
  /\ now' = now + 1
  /\ UNCHANGED <<known, tokens, last, denied, opened, passed>>

(* Mutant: a new peer starts with an empty bucket. *)
RefilledFromEmpty(p) ==
  LET t == IF p \in known THEN tokens[p] + Capacity * (now - last[p]) ELSE 0
  IN IF t > Full THEN Full ELSE t

(* entry(peer).or_insert(full bucket), then the refill since `last`. *)
Refilled(p) ==
  LET t == IF p \in known THEN tokens[p] + Capacity * (now - last[p]) ELSE Full
  IN IF t > Full THEN Full ELSE t

(* Mutant: `last` moves only when the request is allowed. *)
AllowKeepsLast(p) ==
  /\ known' = known \cup {p}
  /\ IF Refilled(p) >= Period
       THEN /\ tokens' = [tokens EXCEPT ![p] = Refilled(p) - Period]
            /\ last' = [last EXCEPT ![p] = now]
            /\ denied' = denied \ {p}
            /\ passed' = [passed EXCEPT ![p] = @ + 1]
       ELSE /\ tokens' = [tokens EXCEPT ![p] = Refilled(p)]
            /\ denied' = denied \cup {p}
            /\ UNCHANGED <<last, passed>>
  /\ UNCHANGED <<now, opened>>

(* A request: allow(peer, now), and 429 when it says no. *)
Allow(p) ==
  /\ known' = known \cup {p}
  /\ last' = [last EXCEPT ![p] = now]
  /\ IF Refilled(p) >= Period
       THEN /\ tokens' = [tokens EXCEPT ![p] = Refilled(p) - Period]
            /\ denied' = denied \ {p}
            /\ passed' = [passed EXCEPT ![p] = @ + 1]
       ELSE /\ tokens' = [tokens EXCEPT ![p] = Refilled(p)]
            /\ denied' = denied \cup {p}
            /\ UNCHANGED passed
  /\ UNCHANGED <<now, opened>>

(* Somebody starts counting. *)
Open(p) ==
  /\ opened' = [opened EXCEPT ![p] = now]
  /\ passed' = [passed EXCEPT ![p] = 0]
  /\ UNCHANGED <<now, known, tokens, last, denied>>

Next == Tick \/ \E p \in Peer : Allow(p) \/ Open(p)

Spec == Init /\ [][Next]_vars
-----------------------------------------------------------------------------
(* Every variable holds a value of its type; a bucket never holds more than
   its capacity, nor less than nothing. *)
TypeOK ==
  /\ now \in 0..MaxTime
  /\ known \in SUBSET Peer
  /\ tokens \in [Peer -> 0..Full]
  /\ last \in [Peer -> 0..now]
  /\ denied \in SUBSET known
  /\ opened \in [Peer -> 0..now]
  /\ passed \in [Peer -> Nat]

(* "Allow `capacity` requests per `period_secs` (with `capacity` burst)":
   whatever the arrival pattern, a window of any length lets through at most
   one burst plus what was refilled during it. *)
WindowBounded ==
  \A p \in Peer : passed[p] * Period <= Full + Capacity * (now - opened[p])

(* A peer that keeps to the rate is never turned away: whenever a request is
   denied, `capacity` requests were allowed in the period before it. *)
DeniedOnlyIfBusy ==
  \A p \in denied : last[p] - opened[p] >= Period => passed[p] >= Capacity
=============================================================================
