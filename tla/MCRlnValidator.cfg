SPECIFICATION Spec
CONSTANTS
  v1 = v1
  v2 = v2
  a = a
  b = b
  NoShare = NoShare
  NoRoot = NoRoot
  Node = {v1, v2}
  Identity = {a, b}
  Signal = {"s", "t"}
  Limit <- MCLimit
  EpochSize = 1
  Capacity = 2
  MaxProofs = 2
  MaxNow = 2
INVARIANTS RateLimited FlaggedIsGuilty
SYMMETRY MCSymmetry
CHECK_DEADLOCK FALSE
