SPECIFICATION FairSpec
CONSTANTS
  pn = pn
  pm = pm
  po = po
  NoEnr = NoEnr
  Hash <- MCHash
  Children <- MCChildren
  EnrAt <- MCEnrAt
  Roots <- MCRoots
  MaxRecords = 4
  Enr <- MCEnr
  Peer = {pn, pm, po}
  NodeOf <- MCNodeOf
  HasTcp = {"n1", "m1", "o1"}
  Adverts <- MCAdverts
  Cluster = 1
  OwnShards = {0, 1}
  Bits = 2
  VectorBytes = 1
  MaxKeys = 2
  Bootstrap <- MCBootstrap
  BookCap = 2
INVARIANTS WalkFindsAll ServesDistinctPeers IdentityIsStable ShardsAsAdvertised DialledOnce KnownIsDialled
PROPERTIES LoopEnds
CHECK_DEADLOCK FALSE
