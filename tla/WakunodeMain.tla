---------------------------- MODULE WakunodeMain -----------------------------
(***************************************************************************)
(* The binary, wakunode/src/main.rs, on top of the driver of NodeDriver.   *)
(* One task spawns the node, subscribes to the shards, dials the static    *)
(* nodes, then drains the event stream until a signal; it receives no      *)
(* event before its loop nor while it awaits a call of its own, however    *)
(* many the driver has to send.  The REST server makes the other calls     *)
(* from tasks of its own; discovery_loop sends Dials.  main keeps its      *)
(* handle and the receiver until it exits, so the driver never sees them   *)
(* dropped.                                                                *)
(***************************************************************************)
EXTENDS NodeDriver

CONSTANTS
  Startup,     \* sequence of calls before the event loop
  Subscribes,  \* those of them that are subscribes, whose error main returns
  Quit         \* the shutdown call

ASSUME MainAssumption ==
  /\ Startup \in Seq(Call \ (Dials \cup {Quit}))
  /\ \A i, j \in DOMAIN Startup : Startup[i] = Startup[j] => i = j
  /\ Subscribes \in SUBSET Call
  /\ Quit \in Call /\ \A c \in Call : Kind[c] = "shutdown" <=> c = Quit

VARIABLE
  main   \* "spawning", "starting", "loop", "stopping" or "exited"

mainVars == <<vars, main>>

Own == {Startup[i] : i \in DOMAIN Startup} \cup {Quit}
Failed(c) == c \in Subscribes /\ caller[c] \in {"err", "NodeStopped"}

MainInit ==
  /\ Init
  /\ main = "spawning"

(* spawn starts `run` and then resolves the enrtrees and starts discv5; the
   driver is at work meanwhile. *)
Spawned ==
  /\ main = "spawning"
  /\ main' = "starting"
  /\ UNCHANGED vars

SpawnFails ==
  /\ main = "spawning"
  /\ main' = "exited"
  /\ UNCHANGED vars

(* The next subscribe or dial, once the one before has returned. *)
StartCall ==
  /\ main = "starting"
  /\ \E i \in DOMAIN Startup :
       /\ \A j \in 1..(i - 1) : caller[Startup[j]] \in Returned /\ ~Failed(Startup[j])
       /\ Begin(Startup[i])
  /\ UNCHANGED main

(* node.subscribe(s).await? returns from main. *)
StartupFails ==
  /\ main = "starting"
  /\ \E c \in Own : Failed(c)
  /\ main' = "exited"
  /\ UNCHANGED vars

(* Mutant: a static node that cannot be dialled is waited for. *)
StartedWhenDialled ==
  /\ main = "starting"
  /\ \A i \in DOMAIN Startup : caller[Startup[i]] = "ok"
  /\ main' = "loop"
  /\ UNCHANGED vars

(* A dial that failed is only logged. *)
Started ==
  /\ main = "starting"
  /\ \A i \in DOMAIN Startup : caller[Startup[i]] \in Returned /\ ~Failed(Startup[i])
  /\ main' = "loop"
  /\ UNCHANGED vars

RecvEvent ==
  /\ main = "loop"
  /\ Receive
  /\ UNCHANGED main

(* Ctrl-C or SIGTERM: main leaves select! for node.shutdown().await. *)
Signal ==
  /\ main = "loop"
  /\ Begin(Quit)
  /\ main' = "stopping"

(* Mutant: main waits for the swarm task to end. *)
ExitAfterTask ==
  /\ main = "stopping"
  /\ caller[Quit] = "ok"
  /\ run = "stopped"
  /\ main' = "exited"
  /\ UNCHANGED vars

(* shutdown returned: main breaks out of the loop and the runtime goes. *)
Exit ==
  /\ main = "stopping"
  /\ caller[Quit] = "ok"
  /\ main' = "exited"
  /\ UNCHANGED vars

(* The other tasks, from when the node is spawned until the runtime is gone. *)
RestCall(c) ==
  /\ main \notin {"spawning", "exited"}
  /\ c \notin Own
  /\ Begin(c) \/ Abandon(c)
  /\ UNCHANGED main

CallProgress(c) ==
  /\ main # "exited"
  /\ Enqueue(c) \/ EnqueueFails(c) \/ Return(c) \/ Settle(c)
  /\ UNCHANGED main

DriverStep ==
  /\ main # "exited"
  /\ HandleCommand \/ SwarmEvent \/ Sent
  /\ UNCHANGED main

MainNext ==
  \/ Spawned \/ SpawnFails
  \/ StartCall \/ StartupFails \/ Started
  \/ RecvEvent \/ Signal \/ Exit
  \/ \E c \in Call : RestCall(c) \/ CallProgress(c)
  \/ DriverStep

(* The fairness of the driver, a spawn that returns, and a main task that is
   polled when ready. *)
MainSpec ==
  /\ MainInit /\ [][MainNext]_mainVars
  /\ \A c \in Call : SF_mainVars(CallProgress(c))
  /\ SF_mainVars(main # "exited" /\ HandleCommand /\ UNCHANGED main)
  /\ WF_mainVars(main # "exited" /\ Sent /\ UNCHANGED main)
  /\ WF_mainVars(Spawned \/ SpawnFails)
  /\ WF_mainVars(StartCall) /\ WF_mainVars(StartupFails) /\ WF_mainVars(Started)
  /\ WF_mainVars(RecvEvent) /\ WF_mainVars(Exit)
-----------------------------------------------------------------------------
(* The driver is in the middle of a handler and has no room for its event. *)
DriverWaits == run = "emitting" /\ events = EvtCap

(* The two ways in which main and the driver wait for each other: main awaits a
   call of its start-up, or room in the command channel for its shutdown, and
   receives no event meanwhile. *)
StartupStuck ==
  /\ main = "starting" /\ DriverWaits
  /\ \E i \in DOMAIN Startup :
       caller[Startup[i]] \in {"sending", "waiting"} /\ reply[Startup[i]] \in {"none", "open"}

ShutdownStuck ==
  /\ main = "stopping" /\ DriverWaits
  /\ caller[Quit] = "sending" /\ Len(cmds) = CmdCap

(* "Drive the event stream until a shutdown signal": main gets to its loop, or
   returns an error. *)
StartupCompletes == main \in {"spawning", "starting"} ~> main \notin {"spawning", "starting"}

(* Nothing but a full event channel keeps main from its loop: not a static node
   that cannot be dialled, a subscribe that fails, nor REST calls that fill the
   command channel first. *)
StartupEndsOrFills ==
  main \in {"spawning", "starting"} ~> main \notin {"spawning", "starting"} \/ StartupStuck

(* "graceful shutdown (Ctrl-C/SIGTERM -> clean stop)": after a signal main
   leaves its loop, whatever the driver and the REST calls are about, unless
   both channels are full. *)
SignalExitsUnlessFull == main = "stopping" ~> main = "exited" \/ ShutdownStuck

(* Every REST call returns while the process lives and main and the driver do
   not wait for each other. *)
RestCallsReturn ==
  \A c \in Call \ Own :
    caller[c] \in {"sending", "waiting"}
      ~> caller[c] \in Returned \/ main = "exited" \/ StartupStuck \/ ShutdownStuck
=============================================================================
