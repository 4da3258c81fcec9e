----------------------------- MODULE MCRestApi -------------------------------
(* Topic a with three messages for a queue of two, topic b with one; a       *)
(* request for both, and one for b again that ends at a string that does not *)
(* parse.  Clients publish a message of b, and one of a on the wrong shard.  *)
EXTENDS RestApi, TLC

CONSTANTS a1, a2, a3, b1, r1, r2

MCShardOf == ("a" :> 1) @@ ("b" :> 2)
MCBody == (r1 :> <<"b", "a">>) @@ (r2 :> <<"a", "x">>)
MCTopicOf == [m \in Msg |-> IF m = b1 THEN "b" ELSE "a"]
MCComesOn == [m \in Msg |-> IF m = b1 THEN 2 ELSE 1]
MCPost ==
  {[msg |-> b1, pubsub |-> AutoShard, decodes |-> TRUE],
   [msg |-> a3, pubsub |-> 2, decodes |-> TRUE],
   [msg |-> a3, pubsub |-> BadShard, decodes |-> TRUE]}
Alike == Permutations({a1, a2})
=============================================================================
