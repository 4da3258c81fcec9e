SPECIFICATION FairSpec
CONSTANTS
  Hash = {1, 2, 3, 4}
  Time = {0, 2}
  NoStamp = NoStamp
  None = None
  Stamp <- MCStamp
  Pubsub <- MCPubsub
  Topic <- MCTopic
  Query <- MCQuery
  SignBit = 8
  Cutoffs = {2}
  Capacities = {2, 15}
INVARIANTS CompleteWalk PagesAdvance
PROPERTIES WalkEnds
CHECK_DEADLOCK FALSE
