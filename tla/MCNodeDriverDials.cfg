SPECIFICATION FairSpec
CONSTANTS
  a = a
  r1 = r1
  r2 = r2
  s = s
  d = d
  Call = {r1, d}
  Dials = {d}
  Kind <- MCKind
  CmdCap = 1
  EvtCap = 1
PROPERTIES DroppedHandlesStop
CHECK_DEADLOCK FALSE
