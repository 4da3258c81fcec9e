SPECIFICATION FairSpec
CONSTANTS
  c1 = c1
  stamped = stamped
  plain = plain
  NoTopic = NoTopic
  NoStamp = NoStamp
  Client = {c1}
  Msg = {stamped, plain}
  Filter <- MCFilter
  TopicOf <- MCTopicOf
  ContentTopicOf <- MCContentTopicOf
  MaxSubs = 2
  Decodes = {stamped, plain}
  Ephemeral = {plain}
  Stamp <- MCStamp
  Second = 2
  Tolerance = 1
  CacheTime = 8
  MaxLag = 1
  Half = 16
  Own = {stamped}
  StoreOn = TRUE
  EvtCap = 1
  QueueCap = 2
  MaxNow = 11
INVARIANTS StampedOnce OwnNotEchoed ForwardedIsSurfaced
PROPERTIES QueuedIsJudged ImplementsFilterSpec
CHECK_DEADLOCK FALSE
