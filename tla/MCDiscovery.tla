----------------------------- MODULE MCDiscovery -----------------------------
(* Three URLs: a tree larger than the record cap, whose branches share a     *)
(* branch and a leaf, a subtree of it as large as the cap, and a single leaf.*)
(* Node pn has two records, only one of which can be dialled.  Node pm has one *)
(* of many configurations.  A byte has two bits: a list holds three shards,  *)
(* a vector of one byte the first two.                                       *)
EXTENDS Discovery, TLC

CONSTANTS pn, pm, po

MCHash == 1..6
MCChildren == <<<<2, 3>>, <<4, 5>>, <<5, 2>>, <<>>, <<>>, <<>>>>
MCEnrAt == <<NoEnr, NoEnr, NoEnr, "n1", "m1", "o1">>
MCRoots == <<1, 3, 6>>
MCEnr == {"n1", "n2", "m1", "o1"}
MCNodeOf == ("n1" :> pn) @@ ("n2" :> pn) @@ ("m1" :> pm) @@ ("o1" :> po)
MCBootstrap == <<"n2">>
MCM1 ==
  {[cluster |-> 1, shards |-> {}, form |-> "rs"], [cluster |-> 1, shards |-> {1, 3, 14}, form |-> "rs"],
   [cluster |-> 6, shards |-> {5}, form |-> "rs"], [cluster |-> 1, shards |-> {0, 1, 3, 5}, form |-> "rs"],
   [cluster |-> 1, shards |-> {0, 1}, form |-> "rsv"], [cluster |-> 6, shards |-> {1}, form |-> "rsv"]}
MCAdverts ==
  {[e \in Enr |-> IF e = "m1" THEN a ELSE [cluster |-> 1, shards |-> {0}, form |-> "rs"]] : a \in MCM1}
=============================================================================
