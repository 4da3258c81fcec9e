----------------------------- MODULE NodeDriver ------------------------------
(***************************************************************************)
(* The swarm driver of waku-node/src/runtime.rs: NodeHandle methods on the *)
(* one side, the `run` task on the other, and between them a bounded       *)
(* command channel, a bounded event channel and one oneshot per call.      *)
(*                                                                         *)
(* A call of Call is one invocation of a NodeHandle method, or one Dial    *)
(* that discovery_loop sends; each is made at most once.  What the swarm   *)
(* does inside a handler is left to the other modules: here a swarm event  *)
(* either makes the driver send an event to the application, or settles an *)
(* outbound request.                                                       *)
(***************************************************************************)
EXTENDS Integers, Sequences, FiniteSets

CONSTANTS
  Call,        \* invocations of NodeHandle methods, and Dials
  Dials,       \* what discovery_loop sends; {} when discovery is off
  Kind,        \* [Call -> {"immediate", "request", "shutdown"}]
  CmdCap,      \* capacity of the command channel
  EvtCap       \* capacity of the event channel

ASSUME DriverAssumption ==
  /\ Kind \in [Call -> {"immediate", "request", "shutdown"}]
  /\ CmdCap \in Nat \ {0}
  /\ EvtCap \in Nat \ {0}
  /\ Dials \in SUBSET {c \in Call : Kind[c] = "immediate"}

VARIABLES
  run,       \* where the `run` task is: "select", "emitting" or "stopped"
  cmds,      \* the command channel
  events,    \* number of events in the event channel
  pending,   \* calls with an entry in Pending
  inflight,  \* outbound requests the swarm has not settled
  caller,    \* where each caller is in its method
  reply,     \* state of each call's oneshot
  handles,   \* whether the application still holds a NodeHandle
  consumer   \* whether the application still holds the event receiver

vars == <<run, cmds, events, pending, inflight, caller, reply, handles, consumer>>
callerVars == <<caller, handles, consumer>>

Queued == {cmds[i] : i \in DOMAIN cmds}
Returned == {"ok", "err", "NodeStopped", "dropped"}

Init ==
  /\ run = "select"
  /\ cmds = <<>>
  /\ events = 0
  /\ pending = {}
  /\ inflight = {}
  /\ caller = [c \in Call |-> "idle"]
  /\ reply = [c \in Call |-> "none"]
  /\ handles = TRUE
  /\ consumer = TRUE
-----------------------------------------------------------------------------
(* A method of NodeHandle creates its oneshot, then awaits cmd_tx.send;
   discovery_loop does the same through a sender of its own. *)
Begin(c) ==
  /\ handles \/ c \in Dials
  /\ caller[c] = "idle"
  /\ caller' = [caller EXCEPT ![c] = "sending"]
  /\ UNCHANGED <<run, cmds, events, pending, inflight, reply, handles, consumer>>

(* Mutant: a channel whose receiver outlives `run`. *)
EnqueueAfterStop(c) ==
  /\ caller[c] = "sending"
  /\ Len(cmds) < CmdCap
  /\ cmds' = Append(cmds, c)
  /\ caller' = [caller EXCEPT ![c] = IF Kind[c] = "shutdown" THEN "ok" ELSE "waiting"]
  /\ reply' = [reply EXCEPT ![c] = IF Kind[c] = "shutdown" THEN @ ELSE "open"]
  /\ UNCHANGED <<run, events, pending, inflight, handles, consumer>>

(* The send completes: shutdown returns at once, discovery_loop drops rx, the
   others await it. *)
Enqueue(c) ==
  /\ caller[c] = "sending"
  /\ run # "stopped"
  /\ Len(cmds) < CmdCap
  /\ cmds' = Append(cmds, c)
  /\ IF Kind[c] = "shutdown"
       THEN /\ caller' = [caller EXCEPT ![c] = "ok"]
            /\ UNCHANGED reply
       ELSE /\ caller' = [caller EXCEPT ![c] = IF c \in Dials THEN "dropped" ELSE "waiting"]
            /\ reply' = [reply EXCEPT ![c] = "open"]
  /\ UNCHANGED <<run, events, pending, inflight, handles, consumer>>

(* The send fails because `run` dropped cmd_rx; shutdown ignores that. *)
EnqueueFails(c) ==
  /\ caller[c] = "sending"
  /\ run = "stopped"
  /\ caller' = [caller EXCEPT ![c] = IF Kind[c] = "shutdown" THEN "ok" ELSE "NodeStopped"]
  /\ UNCHANGED <<run, cmds, events, pending, inflight, reply, handles, consumer>>

(* rx.await completes with the reply, or with an error when the sender was
   dropped unused. *)
Return(c) ==
  /\ caller[c] = "waiting"
  /\ reply[c] \in {"ok", "err", "closed"}
  /\ caller' = [caller EXCEPT ![c] = IF reply[c] = "closed" THEN "NodeStopped" ELSE reply[c]]
  /\ UNCHANGED <<run, cmds, events, pending, inflight, reply, handles, consumer>>

(* The caller's future is dropped: a REST client hangs up, a timeout fires. *)
Abandon(c) ==
  /\ c \notin Dials
  /\ caller[c] \in {"sending", "waiting"}
  /\ caller' = [caller EXCEPT ![c] = "dropped"]
  /\ UNCHANGED <<run, cmds, events, pending, inflight, reply, handles, consumer>>

Receive ==
  /\ consumer
  /\ events > 0
  /\ events' = events - 1
  /\ UNCHANGED <<run, cmds, pending, inflight, caller, reply, handles, consumer>>

(* The application drops its handles, once none of its calls is in progress,
   or the event receiver. *)
DropHandles ==
  /\ handles
  /\ \A c \in Call \ Dials : caller[c] \notin {"sending", "waiting"}
  /\ handles' = FALSE
  /\ UNCHANGED <<run, cmds, events, pending, inflight, caller, reply, consumer>>

DropConsumer ==
  /\ consumer
  /\ consumer' = FALSE
  /\ events' = 0
  /\ UNCHANGED <<run, cmds, pending, inflight, caller, reply, handles>>
-----------------------------------------------------------------------------
(* Leaving the loop drops cmd_rx with the queued commands, Pending with its
   senders, and the swarm. *)
Stop ==
  /\ run' = "stopped"
  /\ cmds' = <<>>
  /\ pending' = {}
  /\ inflight' = {}
  /\ reply' = [c \in Call |-> IF reply[c] = "open" THEN "closed" ELSE reply[c]]
  /\ UNCHANGED <<events, callerVars>>

(* handle_command for Subscribe, Publish and Dial. *)
Immediate(c) ==
  /\ \E r \in {"ok", "err"} : reply' = [reply EXCEPT ![c] = r]
  /\ UNCHANGED <<pending, inflight>>

(* Mutant: the reply sender is not kept. *)
SendRequestForgets(c) ==
  /\ inflight' = inflight \cup {c}
  /\ UNCHANGED <<pending, reply>>

(* handle_command for StoreQuery, LightPush, PeerExchange, FilterSubscribe. *)
SendRequest(c) ==
  /\ pending' = pending \cup {c}
  /\ inflight' = inflight \cup {c}
  /\ UNCHANGED reply

(* Mutant: Shutdown reaches handle_command, which does nothing with it. *)
HandleShutdownAsNoop ==
  /\ run = "select"
  /\ cmds # <<>>
  /\ LET c == Head(cmds) IN
       /\ cmds' = Tail(cmds)
       /\ CASE Kind[c] = "shutdown"  -> UNCHANGED <<pending, inflight, reply>>
            [] Kind[c] = "immediate" -> Immediate(c)
            [] OTHER                 -> SendRequest(c)
       /\ UNCHANGED <<run, events, callerVars>>

(* The cmd_rx branch of select!. *)
HandleCommand ==
  /\ run = "select"
  /\ cmds # <<>>
  /\ LET c == Head(cmds) IN
       \/ /\ Kind[c] = "shutdown"
          /\ Stop
       \/ /\ Kind[c] # "shutdown"
          /\ cmds' = Tail(cmds)
          /\ IF Kind[c] = "immediate" THEN Immediate(c) ELSE SendRequest(c)
          /\ UNCHANGED <<run, events, callerVars>>

(* Mutant: the loop goes on after a None. *)
IgnoreNone ==
  /\ run = "select"
  /\ cmds = <<>>
  /\ ~handles
  /\ Dials = {}
  /\ UNCHANGED vars

(* recv() returns None: the channel is empty and every sender is gone, the one
   that discovery_loop keeps for as long as the channel is open included. *)
AllHandlesDropped ==
  /\ run = "select"
  /\ cmds = <<>>
  /\ ~handles
  /\ Dials = {}
  /\ Stop

(* A swarm event whose handler ends in evt_tx.send(..).await: until there is
   room the task polls neither the swarm nor the commands.  Events that change
   nothing here are stuttering steps, the store queries of peers among them:
   while store_query::serve(..).await waits for the database the task does not
   get on either, which is a driver that stays at "select" and takes no step. *)
SwarmEvent ==
  /\ run = "select"
  /\ run' = "emitting"
  /\ UNCHANGED <<cmds, events, pending, inflight, reply, callerVars>>

(* There is room and the handler completes. *)
Sent ==
  /\ run = "emitting"
  /\ consumer
  /\ events < EvtCap
  /\ events' = events + 1
  /\ run' = "select"
  /\ UNCHANGED <<cmds, pending, inflight, reply, callerVars>>

ConsumerGone ==
  /\ run = "emitting"
  /\ ~consumer
  /\ Stop

(* Mutants: an OutboundFailure falls into the `_ => {}` arm; the sender is
   looked up and not removed. *)
SettleIgnoresFailure(c) ==
  /\ run = "select"
  /\ c \in inflight
  /\ inflight' = inflight \ {c}
  /\ \/ /\ pending' = pending \ {c}
        /\ reply' = [reply EXCEPT ![c] = "ok"]
     \/ UNCHANGED <<pending, reply>>
  /\ UNCHANGED <<run, cmds, events, callerVars>>

SettleKeepsEntry(c) ==
  /\ run = "select"
  /\ c \in inflight
  /\ inflight' = inflight \ {c}
  /\ \E r \in {"ok", "err"} : reply' = [reply EXCEPT ![c] = r]
  /\ UNCHANGED <<run, cmds, events, pending, callerVars>>

(* A Response or OutboundFailure of one of the four request protocols; each
   request is settled once. *)
Settle(c) ==
  /\ run = "select"
  /\ c \in inflight
  /\ inflight' = inflight \ {c}
  /\ pending' = pending \ {c}
  /\ IF c \in pending
       THEN \E r \in {"ok", "err"} : reply' = [reply EXCEPT ![c] = r]
       ELSE UNCHANGED reply
  /\ UNCHANGED <<run, cmds, events, callerVars>>

CallStep(c) == Begin(c) \/ Enqueue(c) \/ EnqueueFails(c) \/ Return(c) \/ Abandon(c)

RunStep ==
  HandleCommand \/ AllHandlesDropped \/ SwarmEvent \/ Sent \/ ConsumerGone

Next ==
  \/ \E c \in Call : CallStep(c) \/ Settle(c)
  \/ Receive \/ DropHandles \/ DropConsumer
  \/ RunStep

Spec == Init /\ [][Next]_vars

(* tokio polls every ready task and select! picks a ready branch at random,
   so a branch that is ready again and again is taken; request_response
   settles every request, by timeout at the latest; the database answers the
   queries that the task awaits; senders queue in FIFO order.  Nothing
   makes an application call, hang up or drop anything. *)
Fairness ==
  /\ \A c \in Call : /\ SF_vars(Enqueue(c)) /\ WF_vars(EnqueueFails(c))
                     /\ WF_vars(Return(c)) /\ SF_vars(Settle(c))
  /\ SF_vars(HandleCommand)
  /\ SF_vars(AllHandlesDropped)
  /\ WF_vars(Sent)
  /\ WF_vars(ConsumerGone)

(* An application with a task that only drains the event stream. *)
FairSpec == Spec /\ Fairness /\ WF_vars(Receive)
-----------------------------------------------------------------------------
(* Every variable holds a value the code's types allow; the channels respect
   their capacities. *)
TypeOK ==
  /\ run \in {"select", "emitting", "stopped"}
  /\ cmds \in Seq(Call) /\ Len(cmds) <= CmdCap
  /\ events \in 0..EvtCap
  /\ pending \in SUBSET Call
  /\ inflight \in SUBSET Call
  /\ caller \in [Call -> {"idle", "sending", "waiting"} \cup Returned]
  /\ reply \in [Call -> {"none", "open", "ok", "err", "closed"}]
  /\ handles \in BOOLEAN
  /\ consumer \in BOOLEAN

(* No reply is lost and none is owed twice: an unanswered oneshot has exactly
   one sender, in exactly one queued command or in one Pending entry. *)
OneSenderPerReply ==
  /\ \A i, j \in DOMAIN cmds : cmds[i] = cmds[j] => i = j
  /\ Queued \cap pending = {}
  /\ \A c \in Call :
       reply[c] = "open" <=> c \in pending \/ (c \in Queued /\ Kind[c] # "shutdown")

(* Pending holds exactly the requests the swarm still owes an outcome, so no
   entry waits for an outcome that was already delivered. *)
PendingIsInFlight == pending = inflight

(* The driver as CallSpec sees it. *)
Up == run # "stopped"
Shutdowns == {c \in Call : Kind[c] = "shutdown"}
Done == [c \in Call |-> IF reply[c] \in {"open", "closed"} THEN "owed" ELSE reply[c]]
Told == [c \in Call |-> IF caller[c] \in {"sending", "waiting"} THEN "open" ELSE caller[c]]

Promised == INSTANCE CallSpec WITH up <- Up, done <- Done, told <- Told

(* "Subsequent commands fail with NodeStopped", and only they: the driver
   implements the calls of CallSpec.  It accepts, decides and answers nothing
   once `run` has ended, a caller is told what was decided about its own call,
   and NodeStopped only of a call about which nothing was or will be decided. *)
ImplementsCallSpec == Promised!Spec

(* Every method call returns: with its reply, or with NodeStopped. *)
CallsReturn ==
  \A c \in Call : caller[c] \in {"sending", "waiting"} ~> caller[c] \in Returned

(* "the swarm task exits": a Shutdown command stops `run`. *)
ShutdownStops ==
  \A c \in Call : (Kind[c] = "shutdown" /\ c \in Queued) ~> run = "stopped"

(* "shutdown or all handles dropped": dropping every NodeHandle ends `run`. *)
DroppedHandlesStop == ~handles ~> run = "stopped"
=============================================================================
