SPECIFICATION Spec
CONSTANTS
  c1 = c1
  c2 = c2
  c3 = c3
  c4 = c4
  p1 = p1
  p2 = p2
  i1 = i1
  NoIp = NoIp
  Conn = {c1, c2, c3, c4}
  Peer = {p1, p2}
  Ip = {i1}
  PeerOf <- MCPeerOf
  IpOf <- MCIpOf
  ClusterOf <- MCClusterOf
  IpLimit = 1
  MaxConnections = 3
  MaxPerPeer = 2
  LocalCluster = "ours"
  NoCluster = "none"
  EvtCap = 2
  MaxAsks = 2
INVARIANT IpLimitHolds
