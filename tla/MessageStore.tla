---------------------------- MODULE MessageStore -----------------------------
(***************************************************************************)
(* SqliteStore (waku-store/src/sqlite.rs) and a client that walks through  *)
(* a query page by page, over the wire (store_query.rs) or over REST.  A   *)
(* query is two statements with no transaction around them: the cursor is  *)
(* looked up first, the page selected after; any put or retention sweep    *)
(* can run in between.                                                     *)
(*                                                                         *)
(* A message is its hash, a number, since the hash covers the topic and    *)
(* the timestamp and is the second sort key.                               *)
(***************************************************************************)
EXTENDS Integers, FiniteSets

CONSTANTS
  Hash,        \* message hashes
  Stamp,       \* the timestamp a message carries, or NoStamp
  NoStamp,
  Pubsub, Topic,  \* the pubsub topic and the content topic of a message
  Time,        \* receiver times
  Query,       \* the queries a client may walk through
  SignBit,     \* 2^63: page_size is an unsigned integer below twice that
  Cutoffs,     \* arguments of delete_older_than
  Capacities,  \* arguments of enforce_capacity
  None         \* no cursor, no key

ASSUME StoreAssumption ==
  /\ Hash \subseteq Nat /\ IsFiniteSet(Hash)
  /\ Stamp \in [Hash -> Int \cup {NoStamp}]
  /\ NoStamp \notin Int
  /\ Time \subseteq Int
  /\ None \notin Hash \cup (Int \X Hash)
  /\ SignBit \in Nat \ {0, 1}
  /\ \A q \in Query : q.page_size \in 0..(2 * SignBit - 1)
  /\ Capacities \subseteq 0..(2 * SignBit - 1)
  /\ Cardinality(Hash) < SignBit

VARIABLES
  rows,    \* the table: sort_time of every stored hash
  phase,   \* the walk: "idle", "resolve", "select", "done" or "failed"
  query,   \* the query being walked
  cursor,  \* the cursor the client sends with its next request
  key,     \* the cursor's key as the first statement read it
  page,    \* the rows of the latest page
  got,     \* the rows of the pages before it
  base,    \* rows that matched when the walk began and were never deleted
  swept,   \* rows deleted since the walk began
  issued,  \* the key the cursor's row had when its page was selected
  moved    \* cursors that were looked up and had another key by then

vars == <<rows, phase, query, cursor, key, page, got, base, swept, issued, moved>>
walk == <<phase, query, cursor, key, page, got, issued, moved>>

(* ORDER BY sort_time, message_hash, and the same descending. *)
Less(k, l) == k[1] < l[1] \/ (k[1] = l[1] /\ k[2] < l[2])
Before(q, k, l) == IF q.forward THEN Less(k, l) ELSE Less(l, k)
Key(h) == <<rows[h], h>>

(* The WHERE clause without the cursor; an empty list is no condition. *)
Matches(q, h) ==
  /\ q.pubsub_topic # None => Pubsub[h] = q.pubsub_topic
  /\ q.content_topics = {} \/ Topic[h] \in q.content_topics
  /\ q.message_hashes = {} \/ h \in q.message_hashes
  /\ q.time_start # None => rows[h] >= q.time_start
  /\ q.time_end # None => rows[h] < q.time_end

Matching(q) == {h \in DOMAIN rows : Matches(q, h)}

(* Mutants: the keyset condition forgets rows that share the cursor's time; it
   is not strict. *)
AfterTimeOnly(q, k, h) ==
  k = None \/ IF q.forward THEN rows[h] > k[1] ELSE rows[h] < k[1]
AfterOrEqual(q, k, h) == k = None \/ ~Before(q, Key(h), k)

(* The keyset condition; no key, no condition. *)
After(q, k, h) == k = None \/ Before(q, k, Key(h))

(* page_size.max(1) as i64, and limit + 1 in the same width. *)
AsSigned(n) == IF n < SignBit THEN n ELSE n - 2 * SignBit
Limit(q) == AsSigned(IF q.page_size = 0 THEN 1 ELSE q.page_size)
LimitPlusOne(q) == AsSigned((Limit(q) + 1) % (2 * SignBit))

(* The first n rows of S in query order; SQLite takes LIMIT < 0 as no limit. *)
First(q, S, n) ==
  IF n < 0 THEN S ELSE {h \in S : Cardinality({g \in S : Before(q, Key(g), Key(h))}) < n}

Last(q, S) == CHOOSE h \in S : \A g \in S : g = h \/ Before(q, Key(g), Key(h))

Init ==
  /\ rows = <<>>
  /\ phase = "idle"
  /\ query \in Query
  /\ cursor = None
  /\ key = None
  /\ page = {}
  /\ got = {}
  /\ base = {}
  /\ swept = {}
  /\ issued = None
  /\ moved = {}
-----------------------------------------------------------------------------
(* The table with a row for h: its timestamp, or the receiver time. *)
Stored(h, now) ==
  [g \in DOMAIN rows \cup {h} |->
     IF g = h THEN (IF Stamp[h] = NoStamp THEN now ELSE Stamp[h]) ELSE rows[g]]

(* Mutant: a message received again replaces the stored one. *)
PutReplaces(h, now) ==
  /\ rows' = Stored(h, now)
  /\ UNCHANGED <<walk, base, swept>>

(* INSERT OR IGNORE: the first sort_time of a hash stays. *)
Put(h, now) ==
  /\ h \notin DOMAIN rows
  /\ rows' = Stored(h, now)
  /\ UNCHANGED <<walk, base, swept>>

Keep(S) ==
  /\ rows' = [h \in S |-> rows[h]]
  /\ base' = base \cap S
  /\ swept' = IF phase = "idle" THEN {} ELSE swept \cup (DOMAIN rows \ S)
  /\ UNCHANGED walk

DeleteOlderThan(cutoff) == Keep({h \in DOMAIN rows : rows[h] >= cutoff})

(* Everything but the max most recent rows goes.  The offset is max as i64; SQLite
   takes a negative one as 0, and then every row goes. *)
EnforceCapacity(max) ==
  Keep({h \in DOMAIN rows :
          Cardinality({g \in DOMAIN rows : Less(Key(h), Key(g))}) < AsSigned(max)})
-----------------------------------------------------------------------------
(* The client sends its first request. *)
Start ==
  /\ phase = "idle"
  /\ phase' = "resolve"
  /\ base' = Matching(query)
  /\ UNCHANGED <<rows, query, cursor, key, page, got, swept, issued, moved>>

(* cursor_sort_time: a hash the table does not hold yields no key. *)
Resolve ==
  /\ phase = "resolve"
  /\ key' = IF cursor # None /\ cursor \in DOMAIN rows THEN Key(cursor) ELSE None
  /\ moved' = IF key' \in {None, issued} THEN moved ELSE moved \cup {cursor}
  /\ phase' = "select"
  /\ UNCHANGED <<rows, query, cursor, page, got, base, swept, issued>>

(* The second statement, and the response; the client goes on for as long as
   the response carries a cursor. *)
Select ==
  /\ phase = "select"
  /\ LET S == {h \in Matching(query) : After(query, key, h)}
         fetched == First(query, S, LimitPlusOne(query))
         has_more == Cardinality(fetched) > Limit(query)
         taken == First(query, fetched, Limit(query))
     IN /\ page' = taken
        /\ got' = got \cup page
        /\ IF has_more /\ taken # {}
             THEN cursor' = Last(query, taken) /\ issued' = Key(cursor') /\ phase' = "resolve"
             ELSE cursor' = None /\ issued' = None /\ phase' = "done"
  /\ key' = None
  /\ UNCHANGED <<rows, query, base, swept, moved>>

(* A statement fails: the response is a 500 with no page and no cursor. *)
StatementFails ==
  /\ phase \in {"resolve", "select"}
  /\ phase' = "failed"
  /\ cursor' = None /\ issued' = None
  /\ key' = None
  /\ UNCHANGED <<rows, query, page, got, base, swept, moved>>

Next ==
  \/ \E h \in Hash, now \in Time : Put(h, now)
  \/ \E cutoff \in Cutoffs : DeleteOlderThan(cutoff)
  \/ \E max \in Capacities : EnforceCapacity(max)
  \/ Start \/ Resolve \/ Select \/ StatementFails

Spec == Init /\ [][Next]_vars

(* A request that was sent is answered, and the client keeps asking. *)
FairSpec == Spec /\ WF_vars(Resolve) /\ WF_vars(Select)
-----------------------------------------------------------------------------
(* Every variable holds a value of its type. *)
TypeOK ==
  /\ DOMAIN rows \in SUBSET Hash /\ rows \in [DOMAIN rows -> Int]
  /\ phase \in {"idle", "resolve", "select", "done", "failed"}
  /\ query \in Query
  /\ cursor \in Hash \cup {None}
  /\ key \in (Int \X Hash) \cup {None}
  /\ page \in SUBSET Hash /\ got \in SUBSET Hash
  /\ base \in SUBSET DOMAIN rows /\ swept \in SUBSET Hash
  /\ issued \in (Int \X Hash) \cup {None} /\ moved \in SUBSET Hash

(* A walk that came to its end has delivered every row that matched when it
   began and is still there, whatever puts and sweeps ran between its pages and
   its statements: next_cursor is "Present when more results remain".  There are
   two exceptions.  A cursor whose row was swept and stored again under another
   sort_time takes the walk past rows it has not seen; only a message without a
   timestamp can do that.  And the limit + 1 of a page_size of u64::MAX is 0. *)
CompleteWalk ==
  /\ phase = "done" /\ moved = {} /\ LimitPlusOne(query) # 0 => base \subseteq page \cup got
  /\ \A h \in moved : h \in swept /\ Stamp[h] = NoStamp

(* As long as no sweep runs, every page lies strictly after all pages before
   it, in query order, so no message is delivered twice; rows inserted
   meanwhile do not disturb it.  (A cursor that was swept restarts the walk.) *)
PagesAdvance ==
  swept = {} => \A g \in got, p \in page : Before(query, Key(g), Key(p))

(* A walk over a store that is only written to ends. *)
WalkEnds == phase = "resolve" ~> (phase \in {"done", "failed"} \/ swept # {})
=============================================================================
