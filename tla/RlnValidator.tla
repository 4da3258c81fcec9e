---------------------------- MODULE RlnValidator -----------------------------
(***************************************************************************)
(* Rate-limiting nullifiers, waku-rln/src/lib.rs: nodes with a membership  *)
(* tree each (RlnRelay), proofs made on one and verified on another, and   *)
(* the validator's nullifier log.                                          *)
(*                                                                         *)
(* The proof system is a library.  It is taken at its word: a proof        *)
(* reveals the root of the tree it was made with, its epoch, a nullifier   *)
(* that is equal for equal identity, epoch and slot only, and a share that *)
(* is equal for the same nullifier and signal only.  A root is the         *)
(* sequence of the leaves.                                                 *)
(***************************************************************************)
EXTENDS Integers, Sequences, FiniteSets

CONSTANTS
  Node, Identity, Signal,
  Limit,      \* user_message_limit of each identity
  EpochSize,  \* epoch_size_secs as configured
  Capacity,   \* leaves of the membership tree (2^20)
  NoShare,    \* no entry in the log
  NoRoot,     \* the root a proof has if the leaf at its index is not its maker's
  MaxProofs,  \* bound on the proofs made
  MaxNow      \* bound on the clock, in seconds

ASSUME RlnAssumption ==
  /\ Limit \in [Identity -> Nat]
  /\ EpochSize \in Nat /\ Capacity \in Nat /\ MaxProofs \in Nat /\ MaxNow \in Nat
  /\ NoShare \notin Signal
  /\ NoRoot \notin Seq(Identity)

Epoch == 0..MaxNow
Slot == UNION {0..(Limit[i] - 1) : i \in Identity}

VARIABLES
  now,       \* the clock
  leaves,    \* the membership tree of each node
  proofs,    \* the proofs made; any node may be sent any of them at any time
  seen,      \* NullifierLog of each node: epoch, nullifier, first share
  accepted   \* InboundVerdict::Valid answers of each node

vars == <<now, leaves, proofs, seen, accepted>>

Proof == [id : Identity, root : Seq(Identity) \cup {NoRoot}, signal : Signal, epoch : Epoch, slot : Slot]

(* epoch_size_secs.max(1) *)
EpochAt(t) == t \div (IF EpochSize = 0 THEN 1 ELSE EpochSize)

(* The epochs whose external nullifier verify_inbound takes at time t. *)
Window(t) == {e \in Epoch : e = EpochAt(t) \/ (EpochAt(t) > 0 /\ e = EpochAt(t) - 1)}

EmptyLog == [e \in Epoch |-> [n \in Identity \X Slot |-> NoShare]]

Init ==
  /\ now = 0
  /\ leaves = [v \in Node |-> <<>>]
  /\ proofs = {}
  /\ seen = [v \in Node |-> EmptyLog]
  /\ accepted = [v \in Node |-> {}]

Tick ==
  /\ now < MaxNow
  /\ now' = now + 1
  /\ UNCHANGED <<leaves, proofs, seen, accepted>>

(* register: the next free leaf; the same identity may register again. *)
Register(v, i) ==
  /\ Len(leaves[v]) < Capacity
  /\ leaves' = [leaves EXCEPT ![v] = Append(@, i)]
  /\ UNCHANGED <<now, proofs, seen, accepted>>

(* prove: the caller chooses leaf, epoch and slot; a slot beyond the limit is
   refused. *)
Prove(v, i, index, s, e, k) ==
  /\ Cardinality(proofs) < MaxProofs
  /\ k < Limit[i]
  /\ LET own == index \in DOMAIN leaves[v] /\ leaves[v][index] = i
     IN proofs' = proofs \cup
          {[id |-> i, root |-> IF own THEN leaves[v] ELSE NoRoot, signal |-> s, epoch |-> e, slot |-> k]}
  /\ UNCHANGED <<now, leaves, seen, accepted>>

(* Mutant: the log forgets which share came first. *)
ObserveLatest(v, p) == [seen EXCEPT ![v][p.epoch][<<p.id, p.slot>>] = p.signal]

(* NullifierLog::observe: the first share of a nullifier stays.  The repository
   has no caller of forget_epoch, so an epoch's log stays too. *)
Observe(v, p) ==
  [seen EXCEPT ![v][p.epoch][<<p.id, p.slot>>] = IF @ = NoShare THEN p.signal ELSE @]

(* Mutant: a replay counts as a double signal. *)
DoubleOnReplay(v, p) == seen[v][p.epoch][<<p.id, p.slot>>] # NoShare

DoubleSignaling(v, p) == seen[v][p.epoch][<<p.id, p.slot>>] \notin {NoShare, p.signal}

(* verify_inbound of p as the proof of a message with signal s. *)
VerifyInbound(v, p, s) ==
  /\ p \in proofs
  /\ p.signal = s /\ p.root = leaves[v] /\ p.epoch \in Window(now)
  /\ seen' = Observe(v, p)
  /\ accepted' = [accepted EXCEPT ![v] = @ \cup {[proof |-> p, double |-> DoubleSignaling(v, p)]}]
  /\ UNCHANGED <<now, leaves, proofs>>

(* InboundVerdict::Invalid leaves everything as it was. *)
RefuseInbound(v, p, s) ==
  /\ p \in proofs
  /\ ~(p.signal = s /\ p.root = leaves[v] /\ p.epoch \in Window(now))
  /\ UNCHANGED vars

Next ==
  \/ Tick
  \/ \E v \in Node :
       \/ \E i \in Identity :
            \/ Register(v, i)
            \/ \E index \in 1..Capacity, s \in Signal, e \in Epoch, k \in Slot : Prove(v, i, index, s, e, k)
       \/ \E p \in proofs, s \in Signal : VerifyInbound(v, p, s) \/ RefuseInbound(v, p, s)

Spec == Init /\ [][Next]_vars
-----------------------------------------------------------------------------
(* Every variable holds a value of its type; no tree outgrows its capacity. *)
TypeOK ==
  /\ now \in 0..MaxNow
  /\ leaves \in [Node -> Seq(Identity)] /\ \A v \in Node : Len(leaves[v]) <= Capacity
  /\ proofs \subseteq Proof
  /\ seen \in [Node -> [Epoch -> [Identity \X Slot -> Signal \cup {NoShare}]]]
  /\ accepted \in [Node -> SUBSET [proof : Proof, double : BOOLEAN]]

(* The signals of identity i that node v accepted as original in epoch e. *)
Originals(v, i, e) ==
  {s \in Signal : \E a \in accepted[v] :
     ~a.double /\ a.proof.id = i /\ a.proof.epoch = e /\ a.proof.signal = s}

(* What RLN is for: in any epoch, a node accepts from an identity at most
   user_message_limit different messages that it does not flag, however often
   the identity registered, whatever proofs it made, and in whatever order they
   arrive. *)
RateLimited ==
  \A v \in Node, i \in Identity, e \in Epoch : Cardinality(Originals(v, i, e)) <= Limit[i]

(* Only a member that signed two different messages with one slot is flagged
   (and has its secret recovered): replays, late arrivals and a new
   registration never cost an honest member its identity. *)
FlaggedIsGuilty ==
  \A v \in Node : \A a \in accepted[v] :
    a.double => \E p \in proofs :
      /\ p.id = a.proof.id /\ p.epoch = a.proof.epoch /\ p.slot = a.proof.slot
      /\ p.signal # a.proof.signal
=============================================================================
