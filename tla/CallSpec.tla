------------------------------ MODULE CallSpec -------------------------------
(* What a NodeHandle promises its callers: the node accepts a call only      *)
(* while it runs, decides at most once about a call it accepted, and only    *)
(* while it runs; a caller learns that decision, or NodeStopped if there is  *)
(* none and never will be.                                                   *)
CONSTANTS
  Call,
  Shutdowns  \* the calls of `shutdown`, about which nothing is decided

VARIABLES
  up,    \* whether the node runs
  done,  \* per call: "none", "owed" once accepted, or the decision
  told   \* per call: "idle", "open", or what it ended with

Init ==
  /\ up = TRUE
  /\ done = [c \in Call |-> "none"]
  /\ told = [c \in Call |-> "idle"]

Invoke(c) ==
  /\ told[c] = "idle"
  /\ told' = [told EXCEPT ![c] = "open"]
  /\ UNCHANGED <<up, done>>

(* discovery_loop is not interested in what becomes of its calls. *)
Accept(c) ==
  /\ up /\ c \notin Shutdowns
  /\ told[c] = "open" /\ done[c] = "none"
  /\ done' = [done EXCEPT ![c] = "owed"]
  /\ \E r \in {"open", "dropped"} : told' = [told EXCEPT ![c] = r]
  /\ UNCHANGED up

(* The caller may have given up by then. *)
Decide(c, r) ==
  /\ up /\ done[c] = "owed"
  /\ done' = [done EXCEPT ![c] = r]
  /\ UNCHANGED <<up, told>>

Ends(c, r) ==
  /\ told[c] = "open"
  /\ told' = [told EXCEPT ![c] = r]
  /\ UNCHANGED <<up, done>>

Answered(c) == done[c] \in {"ok", "err"} /\ Ends(c, done[c])
Refused(c) ==
  ~up /\ c \notin Shutdowns /\ done[c] \in {"none", "owed"} /\ Ends(c, "NodeStopped")
Acknowledged(c) == c \in Shutdowns /\ Ends(c, "ok")
GivenUp(c) == Ends(c, "dropped")

Stop == up /\ up' = FALSE /\ UNCHANGED <<done, told>>

Next ==
  \/ \E c \in Call :
       \/ Invoke(c) \/ Accept(c)
       \/ \E r \in {"ok", "err"} : Decide(c, r)
       \/ Answered(c) \/ Refused(c) \/ Acknowledged(c) \/ GivenUp(c)
  \/ Stop

Spec == Init /\ [][Next]_<<up, done, told>>
=============================================================================
