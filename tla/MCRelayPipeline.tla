--------------------------- MODULE MCRelayPipeline ---------------------------
(* A message stamped late in the run, so that it comes too early and too     *)
(* late, and an ephemeral one without timestamp that no filter wants.  A     *)
(* second is two units, the tolerance one second, and the duplicate cache as *)
(* short as allowed.                                                         *)
EXTENDS RelayPipeline, TLC

CONSTANTS c1, stamped, plain

MCFilter == {[topic |-> NoTopic, content_topics |-> <<"a">>]}
MCTopicOf == [m \in Msg |-> "s1"]
MCContentTopicOf == [m \in Msg |-> IF m = stamped THEN "a" ELSE "b"]
MCStamp ==
  [m \in Msg |-> IF m = stamped THEN 7 ELSE NoStamp]
=============================================================================
