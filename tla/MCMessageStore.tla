--------------------------- MODULE MCMessageStore ----------------------------
(* Four messages: two share a timestamp, one has none and another pubsub     *)
(* topic, one has another content topic.  Page sizes are 4-bit integers.     *)
EXTENDS MessageStore, TLC

MCStamp == (1 :> 1) @@ (2 :> 1) @@ (3 :> NoStamp) @@ (4 :> 2)
MCPubsub == (1 :> "s") @@ (2 :> "s") @@ (3 :> "t") @@ (4 :> "s")
MCTopic == (1 :> "a") @@ (2 :> "a") @@ (3 :> "a") @@ (4 :> "b")

Ask(size, fwd, pubsub, topics, hashes, start, end) ==
  [page_size |-> size, forward |-> fwd, pubsub_topic |-> pubsub, content_topics |-> topics,
   message_hashes |-> hashes,
   time_start |-> start, time_end |-> end]

MCQuery ==
  {Ask(n, f, None, {}, {}, None, None) : n \in {0, 2}, f \in BOOLEAN}
    \cup {Ask(n, n # 8, None, {}, {}, None, None) : n \in {7, 8, 15}}
    \cup {Ask(1, TRUE, "s", {"a"}, {}, 1, 2), Ask(1, FALSE, None, {}, {2, 3, 4}, None, None)}
=============================================================================
