SPECIFICATION PushSpec
CONSTANTS
  p1 = p1
  c1 = c1
  c2 = c2
  m1 = m1
  big = big
  NoMsg = NoMsg
  Peer = {p1}
  Capacity = 2
  Period = 3
  MaxTime = 4
  Group = 4
  Word = 8
  MaxFrameLen = 6
  MaxStream = 9
  CacheTime = 3
  Call = {c1, c2}
  PeerOf <- MCPeerOf
  Push = {m1, big, NoMsg}
  Encoded <- MCEncoded
INVARIANTS WindowBounded DeniedOnlyIfBusy FramesAreExact AnswersAreTrue
SYMMETRY Alike
CHECK_DEADLOCK FALSE
