SPECIFICATION Spec
CONSTANTS
  a1 = a1
  a2 = a2
  a3 = a3
  b1 = b1
  r1 = r1
  r2 = r2
  AutoShard = AutoShard
  BadShard = BadShard
  Shard = {1, 2}
  Topic = {"a", "b"}
  ShardOf <- MCShardOf
  Request = {r1, r2}
  Body <- MCBody
  Msg = {a1, a2, a3, b1}
  TopicOf <- MCTopicOf
  ComesOn <- MCComesOn
  Post <- MCPost
  Configured = {1}
  CacheCap = 2
  EvtCap = 2
INVARIANTS PromisedIsKept PollsInOrder NewestAreKept PublishersMeetSubscribers
SYMMETRY Alike
CHECK_DEADLOCK FALSE
