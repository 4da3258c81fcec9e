----------------------------- MODULE FilterSpec ------------------------------
(* What 12/WAKU2-FILTER promises a light client: it has a set of filters,    *)
(* and a relayed message is pushed to it once if one of them matches.        *)
CONSTANTS Client, Filter, Msg, Matches(_, _)

VARIABLES
  wants,  \* the filters of each client
  acked,  \* the request acknowledged last, if that was the latest thing to happen
  pushes  \* what the message relayed last had each client sent, likewise

NoPush == [p \in Client |-> <<>>]

Init ==
  /\ wants = [p \in Client |-> {}]
  /\ acked = <<>>
  /\ pushes = NoPush

Install(p, f) ==
  /\ wants' = [wants EXCEPT ![p] = @ \cup {f}]
  /\ acked' = <<"SUBSCRIBE", p, f>> /\ pushes' = NoPush

Remove(p, f) ==
  /\ wants' = [wants EXCEPT ![p] = @ \ {f}]
  /\ acked' = <<"UNSUBSCRIBE", p, f>> /\ pushes' = NoPush

RemoveAll(p) ==
  /\ wants' = [wants EXCEPT ![p] = {}]
  /\ acked' = <<"UNSUBSCRIBE_ALL", p>> /\ pushes' = NoPush

(* The pushes one relayed message causes. *)
Relay(m) ==
  /\ pushes' = [p \in Client |-> IF \E f \in wants[p] : Matches(f, m) THEN <<m>> ELSE <<>>]
  /\ acked' = <<>>
  /\ UNCHANGED wants

Next ==
  \/ \E p \in Client, f \in Filter : Install(p, f) \/ Remove(p, f)
  \/ \E p \in Client : RemoveAll(p)
  \/ \E m \in Msg : Relay(m)

Spec == Init /\ [][Next]_<<wants, acked, pushes>>
=============================================================================
