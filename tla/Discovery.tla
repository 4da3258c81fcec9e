------------------------------ MODULE Discovery ------------------------------
(***************************************************************************)
(* Becoming known and finding peers: the key file that gives a node its    *)
(* identity (main.rs), the walks through enrtree:// trees                  *)
(* (waku-discv5/dns.rs) that give spawn its bootstrap records, and         *)
(* discovery_loop of waku-node/src/runtime.rs, which remembers and dials   *)
(* what it finds.  The process may crash at any time and start again; only *)
(* the key file survives.                                                  *)
(*                                                                         *)
(* The content of a tree node is known by the hash of its subdomain.  An   *)
(* ENR is known by itself; NodeOf is both its node id and its peer id,     *)
(* which come from the same key.                                           *)
(***************************************************************************)
EXTENDS Enr

CONSTANTS
  Hash,        \* subdomains, one for each content
  Children,    \* the children a branch lists; <<>> for other contents
  EnrAt,       \* the ENR that is the content of a node, or NoEnr
  NoEnr,
  Roots,       \* e_root of each configured URL, in order
  MaxRecords,  \* MAX_RECORDS
  Enr, Peer, NodeOf,
  HasTcp,      \* ENRs with an IPv4 address and a TCP port
  Adverts,     \* what the ENRs may advertise: functions to [cluster, shards, form]
  Cluster, OwnShards,  \* of our configuration
  Bootstrap,   \* ENRs from the configuration
  BookCap,     \* PEER_BOOK_CAP
  MaxKeys      \* bound: keys generated

ASSUME DiscoveryAssumption ==
  /\ Children \in [Hash -> Seq(Hash)] /\ EnrAt \in [Hash -> Enr \cup {NoEnr}]
  /\ NoEnr \notin Enr
  /\ Roots \in Seq(Hash) /\ Bootstrap \in Seq(Enr)
  /\ NodeOf \in [Enr -> Peer]
  /\ MaxRecords \in Nat /\ BookCap \in Nat \ {0}
  /\ MaxKeys \in Nat \ {0}

(* Clusters and shards are u16. *)
ASSUME AdvertAssumption ==
  \A a \in Adverts, e \in Enr :
    /\ a[e].cluster \in 0..(Byte * Byte - 1) /\ a[e].shards \in SUBSET (0..(Byte * Byte - 1))
    /\ a[e].form \in {"rs", "rsv"}

VARIABLES
  phase,    \* "key", "write", "root", "walk", "boot", "sleep", "query", "dial",
            \* "done", and "down" while the process does not run
  keyFile,  \* "absent", "torn" when a write was cut off, or "whole"
  saved,    \* the key in a whole file; keys are numbers from 1
  key,      \* the key of the running process, or 0
  used,     \* keys the node has appeared with
  advert,   \* what the nodes of the ENRs are configured with
  record,   \* the relay-shards fields of the ENRs
  urls,     \* URLs not resolved yet
  stack, visited, budget, enrs,  \* of the walk through the first of them
  lost,     \* its nodes that could not be had
  boot,     \* the bootstrap records
  todo,     \* ENRs of this round that still have to be dialled
  sending,  \* <<p>> while dial_discovered awaits room for its command
  book,     \* the peer book
  known,    \* peers dialled or about to be
  dials,    \* how often each peer was dialled, up to 2
  open      \* whether the driver still receives commands

walkVars == <<stack, visited, budget, enrs, lost>>
peerVars == <<todo, sending, book, known, dials>>
keyVars == <<keyFile, saved, key, used, advert, record>>
vars == <<keyVars, phase, urls, walkVars, boot, peerVars, open>>

Last(s) == s[Len(s)]
Front(s) == SubSeq(s, 1, Len(s) - 1)
Elems(s) == {s[i] : i \in DOMAIN s}

(* The relay-shards field a node with this configuration writes. *)
Fields(a) ==
  IF a.form = "rs" THEN BuildWakuEnr(a.cluster, a.shards) ELSE VectorEnr(a.cluster, a.shards)

(* enr_to_dialable and the predicate of discover. *)
Dialable(e) == e \in HasTcp /\ EnrRelayShards(record[e]) # Unreadable
InCluster(e) == EnrRelayShards(record[e]).cluster = Cluster

Init ==
  /\ phase = "key" /\ urls = Roots
  /\ keyFile = "absent" /\ saved = 0 /\ key = 0 /\ used = {}
  /\ advert \in Adverts /\ record = [e \in Enr |-> Fields(advert[e])]
  /\ stack = <<>> /\ visited = {} /\ budget = 0 /\ enrs = <<>> /\ lost = {}
  /\ boot = Bootstrap
  /\ todo = <<>> /\ sending = <<>> /\ book = <<>> /\ known = {}
  /\ dials = [p \in Peer |-> 0]
  /\ open = TRUE
-----------------------------------------------------------------------------
Identify(k) == key' = k /\ used' = used \cup {k} /\ phase' = "root"

(* load_or_create_key reads the file; one that was cut off is an error. *)
LoadKey ==
  /\ phase = "key" /\ keyFile = "whole"
  /\ Identify(saved)
  /\ UNCHANGED <<keyFile, saved, advert, record, urls, walkVars, boot, peerVars, open>>

RejectKey ==
  /\ phase = "key" /\ keyFile = "torn"
  /\ phase' = "down"
  /\ UNCHANGED <<keyVars, urls, walkVars, boot, peerVars, open>>

(* Mutant: the node goes on when it cannot save its key. *)
GenerateKeyUnsaved ==
  /\ phase = "key" /\ keyFile = "absent" /\ Cardinality(used) < MaxKeys
  /\ Identify(Cardinality(used) + 1)
  /\ UNCHANGED <<keyFile, saved, advert, record, urls, walkVars, boot, peerVars, open>>

(* There is none: generate a key nobody has used; fs::write creates the file,
   then fills it. *)
GenerateKey ==
  /\ phase = "key" /\ keyFile = "absent" /\ Cardinality(used) < MaxKeys
  /\ key' = Cardinality(used) + 1
  /\ keyFile' = "torn" /\ phase' = "write"
  /\ UNCHANGED <<saved, used, advert, record, urls, walkVars, boot, peerVars, open>>

WriteKey ==
  /\ phase = "write"
  /\ keyFile' = "whole" /\ saved' = key
  /\ Identify(key)
  /\ UNCHANGED <<advert, record, urls, walkVars, boot, peerVars, open>>

(* The process ends, by a crash or an error of fs::write or spawn, and all but
   the file is gone. *)
Crash ==
  /\ phase # "down"
  /\ phase' = "down"
  /\ key' = 0 /\ urls' = Roots
  /\ stack' = <<>> /\ visited' = {} /\ budget' = 0 /\ enrs' = <<>> /\ lost' = {}
  /\ boot' = Bootstrap
  /\ todo' = <<>> /\ sending' = <<>> /\ book' = <<>> /\ known' = {}
  /\ dials' = [p \in Peer |-> 0]
  /\ open' = TRUE
  /\ UNCHANGED <<keyFile, saved, used, advert, record>>

Restart ==
  /\ phase = "down"
  /\ phase' = "key"
  /\ UNCHANGED <<keyVars, urls, walkVars, boot, peerVars, open>>
-----------------------------------------------------------------------------
(* The root record is there, and its signature verifies. *)
BeginWalk ==
  /\ phase = "root" /\ urls # <<>>
  /\ phase' = "walk"
  /\ stack' = <<Head(urls)>>
  /\ visited' = {} /\ budget' = MaxRecords /\ enrs' = <<>> /\ lost' = {}
  /\ UNCHANGED <<keyVars, urls, boot, peerVars, open>>

(* Or not, or it names no subtree: the URL contributes nothing. *)
SkipUrl ==
  /\ phase = "root" /\ urls # <<>>
  /\ urls' = Tail(urls)
  /\ UNCHANGED <<keyVars, phase, walkVars, boot, peerVars, open>>

PopVisited ==
  /\ phase = "walk" /\ stack # <<>> /\ Last(stack) \in visited
  /\ stack' = Front(stack)
  /\ UNCHANGED <<keyVars, phase, urls, visited, budget, enrs, lost, boot, peerVars, open>>

(* The record cap: the walk ends with what it has. *)
Truncate ==
  /\ phase = "walk" /\ stack # <<>> /\ Last(stack) \notin visited /\ budget = 0
  /\ visited' = visited \cup {Last(stack)}
  /\ lost' = lost \cup (Elems(stack) \ visited)
  /\ stack' = <<>>
  /\ UNCHANGED <<keyVars, phase, urls, budget, enrs, boot, peerVars, open>>

(* Mutant: whatever the resolver returns is used. *)
AnyContent(c, h) == TRUE

(* The content must hash to the subdomain asked for. *)
Verifies(c, h) == c = h

(* The resolver answers with content c; a branch's children go on the stack. *)
Fetch(c) ==
  /\ phase = "walk" /\ stack # <<>> /\ budget > 0
  /\ LET h == Last(stack) IN
       /\ h \notin visited
       /\ visited' = visited \cup {h}
       /\ IF Verifies(c, h)
            THEN /\ stack' = Front(stack) \o Children[c]
                 /\ enrs' = IF EnrAt[c] = NoEnr THEN enrs ELSE Append(enrs, EnrAt[c])
                 /\ UNCHANGED lost
            ELSE /\ stack' = Front(stack)
                 /\ lost' = lost \cup {h}
                 /\ UNCHANGED enrs
  /\ budget' = budget - 1
  /\ UNCHANGED <<keyVars, phase, urls, boot, peerVars, open>>

(* The resolver fails, or has no record. *)
FetchFails ==
  /\ phase = "walk" /\ stack # <<>> /\ budget > 0
  /\ Last(stack) \notin visited
  /\ visited' = visited \cup {Last(stack)}
  /\ lost' = lost \cup {Last(stack)}
  /\ stack' = Front(stack)
  /\ budget' = budget - 1
  /\ UNCHANGED <<keyVars, phase, urls, enrs, boot, peerVars, open>>

EndWalk ==
  /\ phase = "walk" /\ stack = <<>>
  /\ boot' = boot \o enrs
  /\ urls' = Tail(urls)
  /\ phase' = "root"
  /\ UNCHANGED <<keyVars, walkVars, peerVars, open>>
-----------------------------------------------------------------------------
(* Discovery::new has built our own record; discovery_loop starts with the
   bootstrap records, of any cluster. *)
StartLoop ==
  /\ phase = "root" /\ urls = <<>>
  /\ BuildWakuEnr(Cluster, OwnShards).rs # Missing
  /\ phase' = "boot"
  /\ todo' = boot
  /\ UNCHANGED <<keyVars, urls, walkVars, boot, sending, book, known, dials, open>>

(* Mutant: the book is not searched for the node. *)
RememberTwice(e) ==
  Append(IF Len(book) >= BookCap THEN Tail(book) ELSE book, e)

(* remember_enr: the first ENR of a node stays; at the cap the oldest goes. *)
RememberEnr(e) ==
  IF \E i \in DOMAIN book : NodeOf[book[i]] = NodeOf[e] THEN book
  ELSE Append(IF Len(book) >= BookCap THEN Tail(book) ELSE book, e)

(* Mutant: a peer is marked as known whether or not it can be dialled. *)
KnowsUndialable(e) == known \cup {NodeOf[e]}

(* known.insert *)
Knows(e) == IF Dialable(e) THEN known \cup {NodeOf[e]} ELSE known

(* Mutant: `known` is not consulted. *)
DialsAgain(e) == Dialable(e)

Dials(e) == Dialable(e) /\ NodeOf[e] \notin known

(* The next ENR of the round, up to the send of its Dial command. *)
Consider ==
  /\ phase \in {"boot", "dial"} /\ sending = <<>> /\ todo # <<>>
  /\ LET e == Head(todo) IN
       /\ book' = RememberEnr(e)
       /\ known' = Knows(e)
       /\ sending' = IF Dials(e) THEN <<NodeOf[e]>> ELSE <<>>
  /\ todo' = Tail(todo)
  /\ UNCHANGED <<keyVars, phase, urls, walkVars, boot, dials, open>>

(* There is room for the command, or the send fails as the driver is gone. *)
SendDial ==
  /\ sending # <<>>
  /\ dials' = IF open THEN [dials EXCEPT ![Head(sending)] = IF @ = 2 THEN 2 ELSE @ + 1] ELSE dials
  /\ sending' = <<>>
  /\ UNCHANGED <<keyVars, phase, urls, walkVars, boot, todo, book, known, open>>

EndRound ==
  /\ phase \in {"boot", "dial"} /\ sending = <<>> /\ todo = <<>>
  /\ phase' = "sleep"
  /\ UNCHANGED <<keyVars, urls, walkVars, boot, peerVars, open>>

(* Mutant: the loop does not look whether the channel is closed. *)
WakeUnchecked ==
  /\ phase = "sleep"
  /\ phase' = "query"
  /\ UNCHANGED <<keyVars, urls, walkVars, boot, peerVars, open>>

(* After DISCOVERY_INTERVAL. *)
Wake ==
  /\ phase = "sleep"
  /\ phase' = IF open THEN "query" ELSE "done"
  /\ UNCHANGED <<keyVars, urls, walkVars, boot, peerVars, open>>

(* discover_dialable finds a dialable ENR of our cluster, nothing, or fails. *)
Query(found) ==
  /\ phase = "query"
  /\ \A e \in Elems(found) : InCluster(e) /\ Dialable(e)
  /\ todo' = found
  /\ phase' = "dial"
  /\ UNCHANGED <<keyVars, urls, walkVars, boot, sending, book, known, dials, open>>

(* The driver ends; not before spawn returned and started the loop. *)
DriverStops ==
  /\ phase \in {"boot", "sleep", "query", "dial"}
  /\ open /\ open' = FALSE
  /\ UNCHANGED <<keyVars, phase, urls, walkVars, boot, peerVars>>

Found == {<<>>} \cup {<<e>> : e \in Enr} \cup (Enr \X Enr)

Progress ==
  \/ LoadKey \/ RejectKey \/ GenerateKey \/ WriteKey
  \/ BeginWalk \/ SkipUrl \/ PopVisited \/ Truncate \/ FetchFails \/ EndWalk
  \/ \E c \in Hash : Fetch(c)
  \/ StartLoop \/ Consider \/ SendDial \/ EndRound \/ Wake
  \/ \E found \in Found : Query(found)

Next == Progress \/ DriverStops \/ Crash \/ Restart

Spec == Init /\ [][Next]_vars

(* Both tasks are polled, DNS and discv5 queries come back, time passes. *)
FairSpec == Spec /\ WF_vars(Progress)
-----------------------------------------------------------------------------
(* Every variable holds a value of its type; the book keeps to its cap. *)
TypeOK ==
  /\ phase \in {"key", "write", "root", "walk", "boot", "sleep", "query", "dial", "done", "down"}
  /\ keyFile \in {"absent", "torn", "whole"} /\ used \subseteq 1..MaxKeys
  /\ saved \in 0..MaxKeys /\ key \in 0..MaxKeys
  /\ advert \in Adverts
  /\ urls \in Seq(Hash) /\ stack \in Seq(Hash) /\ visited \subseteq Hash /\ lost \subseteq Hash
  /\ budget \in 0..MaxRecords
  /\ enrs \in Seq(Enr) /\ boot \in Seq(Enr) /\ todo \in Seq(Enr) /\ sending \in Seq(Peer)
  /\ book \in Seq(Enr) /\ Len(book) <= BookCap
  /\ known \subseteq Peer /\ dials \in [Peer -> 0..2] /\ open \in BOOLEAN

(* The nodes that can be reached from r without passing through `gone`. *)
Reachable(r, gone) ==
  LET Closed(S) == \A h \in S \ gone : Elems(Children[h]) \subseteq S
  IN {h \in Hash \ gone : \A S \in SUBSET Hash : r \in S /\ Closed(S) => h \in S}

(* A walk finds the records of the signed tree and no others: all that can be
   reached through nodes that resolved and verified, however branches share
   children, and whatever the resolver substitutes; the cap costs only what
   was still on the stack. *)
WalkFindsAll ==
  phase = "walk" /\ stack = <<>>
    => Elems(enrs) = {EnrAt[h] : h \in Reachable(Head(urls), lost)} \ {NoEnr}

(* The answer to a peer-exchange query for num peers. *)
ServedPeers(num) == SubSeq(book, 1, IF num < Len(book) THEN num ELSE Len(book))

(* A peer-exchange client gets as many records as it asked for, or all there
   are, of different nodes, whatever the rounds and the cap did to the book. *)
ServesDistinctPeers ==
  \A num \in 0..(BookCap + 1) :
    LET r == ServedPeers(num)
    IN /\ Len(r) \in {num, Len(book)} /\ Len(r) <= num /\ Len(r) <= BookCap
       /\ \A i, j \in DOMAIN r : NodeOf[r[i]] = NodeOf[r[j]] => i = j

(* "stable peer-id/ENR across restarts": once the node has appeared with a key
   it never appears with another, wherever it crashes. *)
IdentityIsStable == Cardinality(used) <= 1

(* Who reads a record learns what its node was configured with, if that could
   be written at all; so a round dials only nodes of our cluster. *)
ShardsAsAdvertised ==
  /\ \A e \in Enr :
       record[e] # [rs |-> Missing, rsv |-> Missing]
         => EnrRelayShards(record[e]) = NewRelayShards(advert[e].cluster, advert[e].shards)
  /\ phase = "dial" => \A e \in Elems(todo) : advert[e].cluster = Cluster

(* No peer is dialled twice, by whatever records and rounds it is found. *)
DialledOnce == \A p \in Peer : dials[p] <= 1

(* `known` is never cleared, so a peer in it that was not dialled would never
   be: being known means that the command was sent, is being sent, or that the
   driver is gone. *)
KnownIsDialled ==
  open => \A p \in known : dials[p] > 0 \/ p \in Elems(sending)

(* However large the tree and the rounds, the task notices that the driver is
   gone and ends. *)
LoopEnds == ~open ~> phase \in {"done", "down"}
=============================================================================
