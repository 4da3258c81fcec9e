--------------------------- MODULE MCRlnValidator ----------------------------
(* Two nodes, an identity that may publish one message an epoch and one that *)
(* may publish two; epochs of one second, of which a proof outlives two.     *)
EXTENDS RlnValidator, TLC

CONSTANTS v1, v2, a, b

MCLimit == [i \in Identity |-> IF i = a THEN 1 ELSE 2]
MCSymmetry == Permutations(Node)
=============================================================================
