--------------------------- MODULE MCWakunodeMain ----------------------------
(* One subscribe, one static node, one or two REST calls and a shutdown.     *)
EXTENDS WakunodeMain, TLC

CONSTANTS sub, dial, rest1, rest2, quit

MCStartup == <<sub, dial>>
MCKind ==
  [c \in Call |-> IF c = quit THEN "shutdown" ELSE IF c = rest2 THEN "request" ELSE "immediate"]
=============================================================================
