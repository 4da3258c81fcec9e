---------------------------- MODULE MCLightPush ------------------------------
(* A client with two pushes under way.  A byte of a prefix has two bits:     *)
(* three is the longest encoding with a prefix of one.  m1 is as large as a  *)
(* frame may be, big is larger.                                              *)
EXTENDS LightPush, TLC

CONSTANTS p1, c1, c2, m1, big

MCPeerOf == [c \in Call |-> p1]
MCEncoded ==
  (NoMsg :> <<0, 0, 0>>) @@ (m1 :> <<0, 0, 0, 0, 0, 1>>) @@ (big :> <<0, 0, 0, 0, 0, 0, 1>>)
    @@ ("200" :> <<2, 0, 0, 5>>) @@ ("400" :> <<4, 0, 0>>) @@ ("429" :> <<4, 2, 9>>) @@ ("503" :> <<5, 0, 3>>)
Alike == Permutations({c1, c2})
=============================================================================
