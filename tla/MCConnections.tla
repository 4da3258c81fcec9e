---------------------------- MODULE MCConnections ----------------------------
(* Four connections of two peers: c1 and c2 of p1 and c3 of p2 come from one *)
(* address, c4 of p2 was dialled by name; p2's cluster differs from ours.    *)
EXTENDS Connections, TLC

CONSTANTS c1, c2, c3, c4, p1, p2, i1

MCPeerOf == (c1 :> p1) @@ (c2 :> p1) @@ (c3 :> p2) @@ (c4 :> p2)
MCIpOf == (c1 :> i1) @@ (c2 :> i1) @@ (c3 :> i1) @@ (c4 :> NoIp)
MCClusterOf == (p1 :> "ours") @@ (p2 :> "theirs")
=============================================================================
