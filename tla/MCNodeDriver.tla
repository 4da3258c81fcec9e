---------------------------- MODULE MCNodeDriver -----------------------------
(* A subscribe, dial or publish (a), requests to peers (r1, r2), a shutdown  *)
(* (s) and an automatic dial (d), over channels of one or two slots.         *)
EXTENDS NodeDriver, TLC

CONSTANTS a, r1, r2, s, d

MCKind ==
  [c \in Call |-> IF c \in {a, d} THEN "immediate" ELSE IF c = s THEN "shutdown" ELSE "request"]
=============================================================================
