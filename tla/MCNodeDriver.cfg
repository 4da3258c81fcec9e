SPECIFICATION FairSpec
CONSTANTS
  a = a
  r1 = r1
  r2 = r2
  s = s
  d = d
  Call = {a, r1, s}
  Dials = {}
  Kind <- MCKind
  CmdCap = 1
  EvtCap = 1
INVARIANTS OneSenderPerReply PendingIsInFlight
PROPERTIES ImplementsCallSpec CallsReturn ShutdownStops DroppedHandlesStop
CHECK_DEADLOCK FALSE
