-------------------------- MODULE NodeDriverProofs ---------------------------
(* Proofs about NodeDriver, for any calls and any channel capacities, and    *)
(* about the driver inside WakunodeMain.                                     *)
EXTENDS WakunodeMain, SequenceTheorems, FiniteSetTheorems, TLAPS

(* The provers of the leaves that name none. An attempt with SMT ends when the
   translation takes five seconds, whatever its limit: on a busy machine a leaf
   needs a later attempt. *)
USE SMTT(15), Zenon, SMTT(30), ZenonT(30), SMTT(40), SMTT(50),
    ZenonT(60), SMTT(60), SMTT(70), SMTT(80), SMTT(90)

(* The oneshot of a call that was not sent yet has no sender anywhere. *)
UnsentIsUnknown ==
  \A c \in Call : caller[c] \in {"idle", "sending"} =>
    c \notin Queued /\ c \notin pending /\ reply[c] = "none"

IInv == TypeOK /\ OneSenderPerReply /\ PendingIsInFlight /\ UnsentIsUnknown

Elems(s) == {s[i] : i \in DOMAIN s}
Distinct(s) == \A i, j \in DOMAIN s : s[i] = s[j] => i = j

(* Sending a command that is not queued keeps the queue free of repetitions. *)
LEMMA AppendDistinct ==
  ASSUME NEW s \in Seq(Call), NEW c \in Call, Distinct(s), c \notin Elems(s)
  PROVE  /\ Append(s, c) \in Seq(Call)
         /\ Elems(Append(s, c)) = Elems(s) \cup {c}
         /\ Distinct(Append(s, c))
<1>1. /\ Append(s, c) \in Seq(Call)
      /\ Len(Append(s, c)) = Len(s) + 1
      /\ \A i \in 1..Len(s) : Append(s, c)[i] = s[i]
      /\ Append(s, c)[Len(s) + 1] = c
  BY AppendProperties
<1>2. Len(s) \in Nat /\ DOMAIN s = 1..Len(s) /\ DOMAIN Append(s, c) = 1..(Len(s) + 1)
  BY <1>1, LenProperties
<1>3. Elems(Append(s, c)) = Elems(s) \cup {c}
  BY <1>1, <1>2 DEF Elems
<1>4. Distinct(Append(s, c))
  <2> SUFFICES ASSUME NEW i \in 1..(Len(s) + 1), NEW j \in 1..(Len(s) + 1),
                      Append(s, c)[i] = Append(s, c)[j]
               PROVE  i = j
    BY <1>2 DEF Distinct
  <2>1. CASE i \in 1..Len(s) /\ j \in 1..Len(s)
    BY <1>1, <1>2, <2>1 DEF Distinct
  <2>2. CASE i = Len(s) + 1 \/ j = Len(s) + 1
    BY <1>1, <1>2, <2>2 DEF Elems
  <2>3. QED
    BY <1>2, <2>1, <2>2
<1>5. QED
  BY <1>1, <1>3, <1>4

(* Receiving takes exactly the head out of the queue. *)
LEMMA TailDistinct ==
  ASSUME NEW s \in Seq(Call), s # <<>>, Distinct(s)
  PROVE  /\ Tail(s) \in Seq(Call) /\ Len(Tail(s)) = Len(s) - 1
         /\ Head(s) \in Elems(s) /\ Head(s) \in Call
         /\ Elems(Tail(s)) = Elems(s) \ {Head(s)}
         /\ Distinct(Tail(s))
<1>1. /\ Head(s) \in Call /\ Tail(s) \in Seq(Call)
      /\ Len(Tail(s)) = Len(s) - 1
      /\ \A i \in 1..Len(Tail(s)) : Tail(s)[i] = s[i + 1]
  BY HeadTailProperties
<1>2. /\ Len(s) \in Nat \ {0} /\ DOMAIN s = 1..Len(s) /\ DOMAIN Tail(s) = 1..(Len(s) - 1)
      /\ Head(s) = s[1]
  BY <1>1, LenProperties, EmptySeq
<1>3. Head(s) \in Elems(s)
  BY <1>2 DEF Elems
<1>4. Elems(Tail(s)) = Elems(s) \ {Head(s)}
  <2>1. ASSUME NEW x \in Elems(Tail(s)) PROVE x \in Elems(s) /\ x # Head(s)
    <3>1. PICK i \in 1..(Len(s) - 1) : x = s[i + 1]
      BY <1>1, <1>2 DEF Elems
    <3>2. QED
      BY <1>2, <3>1 DEF Elems, Distinct
  <2>2. ASSUME NEW x \in Elems(s), x # Head(s) PROVE x \in Elems(Tail(s))
    <3>1. PICK i \in 1..Len(s) : x = s[i]
      BY <1>2 DEF Elems
    <3>2. i - 1 \in 1..(Len(s) - 1) /\ Tail(s)[i - 1] = x
      BY <1>1, <1>2, <2>2, <3>1
    <3>3. QED
      BY ZenonT(60), <1>2, <3>2 DEF Elems
  <2>3. QED
    BY <2>1, <2>2
<1>5. Distinct(Tail(s))
  BY <1>1, <1>2 DEF Distinct
<1>6. QED
  BY <1>1, <1>3, <1>4, <1>5

(* The invariant, in terms of the two helpers. *)
Account ==
  /\ TypeOK
  /\ Distinct(cmds)
  /\ Elems(cmds) \cap pending = {}
  /\ \A c \in Call :
       reply[c] = "open" <=> c \in pending \/ (c \in Elems(cmds) /\ Kind[c] # "shutdown")
  /\ pending = inflight
  /\ \A c \in Call : caller[c] \in {"idle", "sending"} =>
       c \notin Elems(cmds) /\ c \notin pending /\ reply[c] = "none"

(* Account is the invariant, before and after a step. *)
LEMMA InvUnfolded == (IInv <=> Account) /\ (IInv' <=> Account')
BY DEF Account, IInv, OneSenderPerReply, PendingIsInFlight, UnsentIsUnknown, Queued, Elems,
       Distinct

(* Leaving the loop closes every oneshot that is still open. *)
LEMMA StopPreserves == ASSUME Account, Stop PROVE Account'
<1>1. Elems(<<>>) = {} /\ Distinct(<<>>)
  BY DEF Elems, Distinct
<1>2. TypeOK'
  BY DriverAssumption DEF Stop, callerVars, Account, TypeOK, Returned
<1>3. \A c \in Call : reply'[c] # "open" /\ (reply[c] = "none" => reply'[c] = "none")
  BY DEF Stop
<1>4. cmds' = <<>> /\ pending' = {} /\ inflight' = {} /\ caller' = caller
  BY DEF Stop, callerVars
<1>5. QED
  BY <1>1, <1>2, <1>3, <1>4 DEF Account

(* A caller's step: only a completed send touches what the driver owns. *)
LEMMA CallStepPreserves ==
  ASSUME Account, NEW c \in Call, CallStep(c) PROVE Account'
<1> USE DriverAssumption
<1>1. CASE Begin(c)
  BY <1>1 DEF Begin, Account, TypeOK
<1>2. CASE Enqueue(c)
  <2>1. c \notin Elems(cmds) /\ c \notin pending /\ reply[c] = "none"
    BY <1>2 DEF Enqueue, Account
  <2>2. /\ cmds' \in Seq(Call) /\ Len(cmds') <= CmdCap
        /\ Elems(cmds') = Elems(cmds) \cup {c} /\ Distinct(cmds')
    <3>1. cmds \in Seq(Call) /\ cmds' = Append(cmds, c) /\ Len(cmds) < CmdCap /\ Distinct(cmds)
      BY <1>2 DEF Enqueue, Account, TypeOK
    <3>2. Len(cmds') = Len(cmds) + 1 /\ Len(cmds) \in Nat
      BY <3>1, AppendProperties, LenProperties
    <3>3. QED
      BY <2>1, <3>1, <3>2, AppendDistinct
  <2>3. TypeOK'
    BY <1>2, <2>2 DEF Enqueue, Account, TypeOK, Returned
  <2>4. CASE Kind[c] = "shutdown"
    BY <1>2, <2>1, <2>2, <2>3, <2>4 DEF Enqueue, Account, TypeOK
  <2>5. CASE Kind[c] # "shutdown"
    BY <1>2, <2>1, <2>2, <2>3, <2>5 DEF Enqueue, Account, TypeOK
  <2>6. QED
    BY <2>4, <2>5
<1>3. CASE EnqueueFails(c) \/ Return(c) \/ Abandon(c)
  <2>1. TypeOK'
    BY <1>3 DEF EnqueueFails, Return, Abandon, Account, TypeOK, Returned
  <2>2. /\ UNCHANGED <<cmds, pending, inflight, reply>>
        /\ \A d \in Call : caller'[d] \in {"idle", "sending"} => caller'[d] = caller[d]
    BY <1>3 DEF EnqueueFails, Return, Abandon, Account, TypeOK
  <2>3. QED
    BY <2>1, <2>2 DEF Account
<1>4. QED
  BY <1>1, <1>2, <1>3 DEF CallStep

(* The outcome of a request, delivered at most once. *)
LEMMA SettlePreserves ==
  ASSUME Account, NEW c \in Call, Settle(c) PROVE Account'
<1>1. c \in pending /\ c \notin Elems(cmds) /\ caller[c] \notin {"idle", "sending"}
  BY DEF Settle, Account
<1>2. PICK r \in {"ok", "err"} : reply' = [reply EXCEPT ![c] = r]
  BY <1>1 DEF Settle
<1>3. /\ pending' = pending \ {c} /\ inflight' = inflight \ {c}
      /\ UNCHANGED <<run, cmds, events, caller, handles, consumer>>
  BY DEF Settle, callerVars
<1>4. TypeOK'
  BY <1>2, <1>3 DEF Account, TypeOK
<1>5. QED
  BY <1>1, <1>2, <1>3, <1>4 DEF Account, TypeOK

(* The driver takes the head of the queue and answers it, keeps it, or stops. *)
LEMMA CommandPreserves ==
  ASSUME Account, HandleCommand PROVE Account'
<1> DEFINE c == Head(cmds)
<1>1. CASE Kind[c] = "shutdown"
  <2>1. Stop
    BY <1>1 DEF HandleCommand
  <2>2. QED
    BY <2>1, StopPreserves
<1>2. CASE Kind[c] # "shutdown"
  <2>1. /\ cmds # <<>> /\ cmds' = Tail(cmds)
        /\ UNCHANGED <<run, events, caller, handles, consumer>>
        /\ IF Kind[c] = "immediate" THEN Immediate(c) ELSE SendRequest(c)
    BY <1>2 DEF HandleCommand, callerVars
  <2>2. /\ cmds' \in Seq(Call) /\ Len(cmds') = Len(cmds) - 1 /\ c \in Elems(cmds) /\ c \in Call
        /\ Elems(cmds') = Elems(cmds) \ {c} /\ Distinct(cmds')
    BY <2>1, TailDistinct DEF Account, TypeOK
  <2>3. /\ c \notin pending /\ reply[c] = "open" /\ caller[c] \notin {"idle", "sending"}
        /\ Len(cmds') <= CmdCap
    BY <1>2, <2>2, DriverAssumption, LenProperties DEF Account, TypeOK
  <2>4. CASE Kind[c] = "immediate"
    <3>1. PICK r \in {"ok", "err"} : reply' = [reply EXCEPT ![c] = r]
      BY <2>1, <2>4 DEF Immediate
    <3>2. pending' = pending /\ inflight' = inflight
      BY <2>1, <2>4 DEF Immediate
    <3>3. TypeOK'
      BY <2>1, <2>2, <2>3, <3>1, <3>2 DEF Account, TypeOK
    <3>4. QED
      BY <2>1, <2>2, <2>3, <3>1, <3>2, <3>3 DEF Account, TypeOK
  <2>5. CASE Kind[c] # "immediate"
    <3>1. pending' = pending \cup {c} /\ inflight' = inflight \cup {c} /\ reply' = reply
      BY <2>1, <2>5 DEF SendRequest
    <3>2. TypeOK'
      BY <2>1, <2>2, <2>3, <3>1 DEF Account, TypeOK
    <3>3. QED
      BY <2>1, <2>2, <2>3, <3>1, <3>2 DEF Account, TypeOK
  <2>6. QED
    BY <2>4, <2>5
<1>3. QED
  BY <1>1, <1>2

(* The inductive step. *)
LEMMA InvPreserved == IInv /\ [Next]_vars => IInv'
<1> SUFFICES ASSUME Account, [Next]_vars PROVE Account'
  BY InvUnfolded
<1> USE DriverAssumption
<1>1. ASSUME NEW c \in Call, CallStep(c) PROVE Account'
  BY <1>1, CallStepPreserves
<1>2. ASSUME NEW c \in Call, Settle(c) PROVE Account'
  BY <1>2, SettlePreserves
<1>3. CASE HandleCommand
  BY <1>3, CommandPreserves
<1>4. CASE AllHandlesDropped \/ ConsumerGone
  BY <1>4, StopPreserves DEF AllHandlesDropped, ConsumerGone
<1>5. CASE Receive \/ DropHandles \/ DropConsumer \/ SwarmEvent \/ Sent
  <2>1. TypeOK'
    <3>1. CASE Receive
      BY <3>1 DEF Receive, Account, TypeOK
    <3>2. CASE DropHandles
      BY ZenonT(60), <3>2 DEF DropHandles, Account, TypeOK
    <3>3. CASE DropConsumer
      <4>1. 0 \in 0..EvtCap
        OBVIOUS
      <4>2. QED
        BY <3>3, <4>1, ZenonT(60) DEF DropConsumer, Account, TypeOK
    <3>4. CASE SwarmEvent \/ Sent
      BY <3>4 DEF SwarmEvent, Sent, callerVars, Account, TypeOK
    <3>5. QED
      BY <1>5, <3>1, <3>2, <3>3, <3>4
  <2>2. UNCHANGED <<cmds, pending, inflight, reply, caller>>
    BY <1>5 DEF Receive, DropHandles, DropConsumer, SwarmEvent, Sent, callerVars
  <2>3. QED
    BY <2>1, <2>2 DEF Account
<1>6. CASE UNCHANGED vars
  BY <1>6 DEF vars, Account, TypeOK
<1>7. QED
  BY <1>1, <1>2, <1>3, <1>4, <1>5, <1>6 DEF Next, RunStep

(* Every reply has its one sender, in every reachable state. *)
THEOREM InductiveInvariant == Spec => []IInv
<1>1. Init => IInv
  <2> SUFFICES ASSUME Init PROVE Account
    BY InvUnfolded
  <2>1. Elems(<<>>) = {} /\ Distinct(<<>>)
    BY DEF Elems, Distinct
  <2>2. TypeOK
    BY DriverAssumption DEF Init, TypeOK
  <2>3. QED
    BY <2>1, <2>2 DEF Init, Account
<1>2. QED
  BY <1>1, InvPreserved, PTL DEF Spec

(* Type correctness: the command and event channels keep to their
   capacities. *)
THEOREM TypeCorrect == Spec => []TypeOK
<1>1. IInv => TypeOK
  BY DEF IInv
<1>2. QED
  BY <1>1, InductiveInvariant, PTL

(* No reply of a NodeHandle method is lost or owed twice: neither a full
   channel, nor an abandoned call, nor the end of `run` leaves a caller with a
   oneshot that nobody will answer or close. *)
THEOREM EveryReplyHasOneSender == Spec => []OneSenderPerReply
<1>1. IInv => OneSenderPerReply
  BY DEF IInv
<1>2. QED
  BY <1>1, InductiveInvariant, PTL

(* Pending never outlives, nor falls behind, the requests in flight. *)
THEOREM PendingMatchesRequests == Spec => []PendingIsInFlight
<1>1. IInv => PendingIsInFlight
  BY DEF IInv
<1>2. QED
  BY <1>1, InductiveInvariant, PTL

(* Nothing gets into the channel, no reply is produced and nothing starts `run`
   again once it has ended. *)
StoppedIsFinal == [][run = "stopped" => UNCHANGED <<run, cmds, reply>>]_vars

(* Once `run` has ended it accepts and answers nothing. *)
THEOREM StoppedForGood == Spec => StoppedIsFinal
<1>1. IInv /\ [Next]_vars => [run = "stopped" => UNCHANGED <<run, cmds, reply>>]_vars
  <2> SUFFICES ASSUME IInv, Next, run = "stopped" PROVE UNCHANGED <<run, cmds, reply>>
    OBVIOUS
  <2>1. ASSUME NEW c \in Call, CallStep(c) PROVE UNCHANGED <<run, cmds, reply>>
    BY <2>1 DEF CallStep, Begin, Enqueue, EnqueueFails, Return, Abandon
  <2>2. QED
    BY <2>1 DEF Next, RunStep, Settle, HandleCommand, AllHandlesDropped, SwarmEvent, Sent,
                ConsumerGone, Receive, DropHandles, DropConsumer
<1>2. QED
  BY <1>1, InductiveInvariant, PTL DEF Spec, StoppedIsFinal
-----------------------------------------------------------------------------
(* A oneshot is closed unused only when `run` ends, and shutdown has none. *)
ClosedByStop ==
  \A c \in Call : /\ reply[c] = "closed" => run = "stopped"
                  /\ Kind[c] = "shutdown" => reply[c] = "none"

(* No step closes a oneshot of a running driver. *)
LEMMA ClosedPreserved == IInv /\ ClosedByStop /\ [Next]_vars => ClosedByStop'
<1> SUFFICES ASSUME IInv, ClosedByStop, [Next]_vars PROVE ClosedByStop'
  OBVIOUS
<1>t. /\ reply \in [Call -> {"none", "open", "ok", "err", "closed"}]
      /\ cmds \in Seq(Call)
  BY DEF IInv, TypeOK
<1>1. ASSUME NEW c \in Call, CallStep(c) PROVE ClosedByStop'
  <2>1. /\ run' = run
        /\ \A d \in Call : reply'[d] = reply[d] \/ (Kind[d] # "shutdown" /\ reply'[d] = "open")
    BY <1>1, <1>t DEF CallStep, Begin, Enqueue, EnqueueFails, Return, Abandon
  <2>2. QED
    BY <2>1 DEF ClosedByStop
<1>2. ASSUME NEW c \in Call, run' = run, Kind[c] # "shutdown" \/ reply[c] # "none",
             \E r \in {"ok", "err"} : reply' = [reply EXCEPT ![c] = r]
      PROVE  ClosedByStop'
  <2>1. \A d \in Call : reply'[d] = reply[d] \/ (d = c /\ reply'[d] \in {"ok", "err"})
    BY <1>2, <1>t
  <2>2. QED
    BY <1>2, <2>1 DEF ClosedByStop
<1>3. ASSUME NEW c \in Call, Settle(c) PROVE ClosedByStop'
  <2>1. c \in pending /\ reply[c] = "open"
    BY <1>3 DEF Settle, IInv, PendingIsInFlight, OneSenderPerReply
  <2>2. QED
    BY <1>2, <1>3, <2>1 DEF Settle
<1>4. ASSUME Stop PROVE ClosedByStop'
  BY <1>4 DEF Stop, ClosedByStop
<1>5. CASE HandleCommand
  <2>1. Head(cmds) \in Call
    BY <1>5, <1>t, HeadTailProperties DEF HandleCommand
  <2>2. CASE Kind[Head(cmds)] = "shutdown"
    BY <1>4, <1>5, <2>2 DEF HandleCommand
  <2>3. CASE Kind[Head(cmds)] = "immediate"
    BY <1>2, <1>5, <2>1, <2>3 DEF HandleCommand, Immediate
  <2>4. CASE Kind[Head(cmds)] \notin {"shutdown", "immediate"}
    <3>1. run' = run /\ reply' = reply
      BY <1>5, <2>4 DEF HandleCommand, SendRequest
    <3>2. QED
      BY <3>1 DEF ClosedByStop
  <2>5. QED
    BY <2>2, <2>3, <2>4
<1>6. CASE AllHandlesDropped \/ ConsumerGone
  BY <1>4, <1>6 DEF AllHandlesDropped, ConsumerGone
<1>7. CASE Receive \/ DropHandles \/ DropConsumer \/ SwarmEvent \/ Sent \/ UNCHANGED vars
  <2>1. reply' = reply /\ (run = "stopped" => run' = "stopped")
    BY <1>7 DEF Receive, DropHandles, DropConsumer, SwarmEvent, Sent, vars
  <2>2. QED
    BY <2>1 DEF ClosedByStop
<1>8. QED
  BY <1>1, <1>3, <1>5, <1>6, <1>7 DEF Next, RunStep

(* How a step of one caller, or of one reply, looks in CallSpec. *)
LEMMA ToldIs ==
  ASSUME NEW c \in Call, NEW s, caller' = [caller EXCEPT ![c] = s],
         caller \in [Call -> {"idle", "sending", "waiting"} \cup Returned]
  PROVE  Told' = [Told EXCEPT ![c] = IF s \in {"sending", "waiting"} THEN "open" ELSE s]
<1> DEFINE t == IF s \in {"sending", "waiting"} THEN "open" ELSE s
<1>1. \A d \in Call : caller'[d] = IF d = c THEN s ELSE caller[d]
  OBVIOUS
<1>2. Told' = [d \in Call |-> IF d = c THEN t ELSE Told[d]]
  BY <1>1 DEF Told
<1>3. QED
  BY <1>2, ZenonT(60) DEF Told

LEMMA DoneIs ==
  ASSUME NEW c \in Call, NEW s, reply' = [reply EXCEPT ![c] = s],
         reply \in [Call -> {"none", "open", "ok", "err", "closed"}]
  PROVE  Done' = [Done EXCEPT ![c] = IF s \in {"open", "closed"} THEN "owed" ELSE s]
<1> DEFINE t == IF s \in {"open", "closed"} THEN "owed" ELSE s
<1>1. \A d \in Call : reply'[d] = IF d = c THEN s ELSE reply[d]
  OBVIOUS
<1>2. Done' = [d \in Call |-> IF d = c THEN t ELSE Done[d]]
  BY <1>1 DEF Done
<1>3. QED
  BY <1>2, ZenonT(60) DEF Done

(* Of a call that a caller waits for, or has not sent, CallSpec sees this. *)
LEMMA SeenAs ==
  ASSUME NEW c \in Call
  PROVE  /\ Told[c] = IF caller[c] \in {"sending", "waiting"} THEN "open" ELSE caller[c]
         /\ Done[c] = IF reply[c] \in {"open", "closed"} THEN "owed" ELSE reply[c]
BY DEF Told, Done

(* A call made, sent, refused, returned or abandoned. *)
LEMMA CallRefines ==
  ASSUME IInv, ClosedByStop, NEW c \in Call, CallStep(c)
  PROVE  \/ Promised!Invoke(c) \/ Promised!Accept(c) \/ Promised!Answered(c)
         \/ Promised!Refused(c) \/ Promised!Acknowledged(c) \/ Promised!GivenUp(c)
         \/ UNCHANGED <<Up, Done, Told>>
<1>t. /\ caller \in [Call -> {"idle", "sending", "waiting"} \cup Returned]
      /\ reply \in [Call -> {"none", "open", "ok", "err", "closed"}]
      /\ Kind \in [Call -> {"immediate", "request", "shutdown"}]
  BY DriverAssumption DEF IInv, TypeOK
<1>u. /\ Up' = Up
      /\ reply' = reply => Done' = Done
  BY DEF CallStep, Begin, Enqueue, EnqueueFails, Return, Abandon, Up, Done
<1>s. /\ caller[c] = "sending" => Told[c] = "open" /\ Done[c] = "none"
      /\ caller[c] = "waiting" => Told[c] = "open"
      /\ caller[c] = "idle" => Told[c] = "idle"
  BY SeenAs DEF IInv, UnsentIsUnknown
<1>1. CASE Begin(c)
  <2>1. caller' = [caller EXCEPT ![c] = "sending"] /\ caller[c] = "idle" /\ reply' = reply
    BY <1>1 DEF Begin
  <2>2. Told' = [Told EXCEPT ![c] = "open"]
    BY ZenonT(60), <1>t, <2>1, ToldIs
  <2>3. QED
    BY ZenonT(60), <1>u, <1>s, <2>1, <2>2 DEF Promised!Invoke
<1>2. CASE Enqueue(c)
  <2>0. caller[c] = "sending" /\ Up
    BY <1>2 DEF Enqueue, Up
  <2>1. CASE Kind[c] = "shutdown"
    <3>1. caller' = [caller EXCEPT ![c] = "ok"] /\ reply' = reply
      BY <1>2, <2>1 DEF Enqueue
    <3>2. Told' = [Told EXCEPT ![c] = "ok"]
      BY ZenonT(60), <1>t, <3>1, ToldIs
    <3>3. QED
      BY <1>u, <1>s, <2>0, <2>1, <3>1, <3>2
      DEF Promised!Acknowledged, Promised!Ends, Shutdowns
  <2>2. CASE Kind[c] # "shutdown"
    <3>1. PICK s \in {"waiting", "dropped"} : caller' = [caller EXCEPT ![c] = s]
      BY <1>2, <2>2 DEF Enqueue
    <3>2. \E r \in {"open", "dropped"} : Told' = [Told EXCEPT ![c] = r]
      <4>1. Told' = [Told EXCEPT ![c] = IF s \in {"sending", "waiting"} THEN "open" ELSE s]
        BY <1>t, <3>1, ToldIs, ZenonT(60)
      <4>2. QED
        BY ZenonT(60), <3>1, <4>1
    <3>3. Done' = [Done EXCEPT ![c] = "owed"]
      <4>1. reply' = [reply EXCEPT ![c] = "open"]
        BY <1>2, <2>2 DEF Enqueue
      <4>2. QED
        BY ZenonT(60), <1>t, <4>1, DoneIs
    <3>4. QED
      BY ZenonT(60), <1>u, <1>s, <2>0, <2>2, <3>2, <3>3 DEF Promised!Accept, Shutdowns
  <2>3. QED
    BY <2>1, <2>2
<1>3. CASE EnqueueFails(c)
  <2>1. caller[c] = "sending" /\ ~Up /\ reply' = reply
    BY <1>3 DEF EnqueueFails, Up
  <2>2. CASE Kind[c] = "shutdown"
    <3>1. caller' = [caller EXCEPT ![c] = "ok"]
      BY <1>3, <2>2 DEF EnqueueFails
    <3>2. Told' = [Told EXCEPT ![c] = "ok"]
      BY ZenonT(60), <1>t, <3>1, ToldIs
    <3>3. QED
      BY ZenonT(60), <1>u, <1>s, <2>1, <2>2, <3>2 DEF Promised!Acknowledged, Promised!Ends, Shutdowns
  <2>3. CASE Kind[c] # "shutdown"
    <3>1. caller' = [caller EXCEPT ![c] = "NodeStopped"]
      BY <1>3, <2>3 DEF EnqueueFails
    <3>2. Told' = [Told EXCEPT ![c] = "NodeStopped"]
      BY ZenonT(60), <1>t, <3>1, ToldIs
    <3>3. QED
      BY ZenonT(60), <1>u, <1>s, <2>1, <2>3, <3>2 DEF Promised!Refused, Promised!Ends, Shutdowns
  <2>4. QED
    BY <2>2, <2>3
<1>4. CASE Return(c)
  <2>1. caller[c] = "waiting" /\ reply' = reply /\ reply[c] \in {"ok", "err", "closed"}
    BY <1>4 DEF Return
  <2>2. CASE reply[c] = "closed"
    <3>1. caller' = [caller EXCEPT ![c] = "NodeStopped"]
      BY <1>4, <2>2 DEF Return
    <3>2. Told' = [Told EXCEPT ![c] = "NodeStopped"]
      BY ZenonT(60), <1>t, <3>1, ToldIs
    <3>3. ~Up /\ Done[c] = "owed"
      BY <2>2, SeenAs DEF ClosedByStop, Up
    <3>4. c \notin Shutdowns
      BY <2>2 DEF ClosedByStop, Shutdowns
    <3>5. QED
      BY ZenonT(60), <1>u, <1>s, <2>1, <3>2, <3>3, <3>4 DEF Promised!Refused, Promised!Ends
  <2>3. CASE reply[c] # "closed"
    <3>1. caller' = [caller EXCEPT ![c] = reply[c]] /\ Done[c] = reply[c] /\ reply[c] \in {"ok", "err"}
      BY <1>4, <2>1, <2>3, SeenAs DEF Return
    <3>2. Told' = [Told EXCEPT ![c] = reply[c]]
      BY ZenonT(60), <1>t, <3>1, ToldIs
    <3>3. QED
      BY ZenonT(60), <1>u, <1>s, <2>1, <3>1, <3>2 DEF Promised!Answered, Promised!Ends
  <2>4. QED
    BY <2>2, <2>3
<1>5. CASE Abandon(c)
  <2>1. /\ caller' = [caller EXCEPT ![c] = "dropped"] /\ reply' = reply
        /\ caller[c] \in {"sending", "waiting"}
    BY <1>5 DEF Abandon
  <2>2. Told' = [Told EXCEPT ![c] = "dropped"]
    BY ZenonT(60), <1>t, <2>1, ToldIs
  <2>3. QED
    BY ZenonT(60), <1>u, <1>s, <2>1, <2>2 DEF Promised!GivenUp, Promised!Ends
<1>6. QED
  BY <1>1, <1>2, <1>3, <1>4, <1>5 DEF CallStep

(* The driver decides about a request it has settled, and about a command that
   it handles at once. *)
LEMMA DecideRefines ==
  ASSUME NEW c \in Call, run = "select", UNCHANGED <<run, caller>>, reply[c] = "open",
         reply \in [Call -> {"none", "open", "ok", "err", "closed"}],
         NEW r \in {"ok", "err"}, reply' = [reply EXCEPT ![c] = r]
  PROVE  Promised!Decide(c, r)
<1>1. Done' = [Done EXCEPT ![c] = r]
  BY ZenonT(60), DoneIs
<1>2. Up /\ Up' = Up /\ Told' = Told
  BY ZenonT(60) DEF Up, Told
<1>3. Done[c] = "owed"
  BY ZenonT(60), SeenAs
<1>4. QED
  BY ZenonT(60), <1>1, <1>2, <1>3 DEF Promised!Decide

(* Ending the loop closes what is owed, which stays owed. *)
LEMMA StopRefines == ASSUME Stop, run # "stopped" PROVE Promised!Stop
<1>1. \A c \in Call :
        (IF reply'[c] \in {"open", "closed"} THEN "owed" ELSE reply'[c])
          = (IF reply[c] \in {"open", "closed"} THEN "owed" ELSE reply[c])
  BY DEF Stop
<1>2. Done' = Done
  BY <1>1 DEF Done
<1>3. Up /\ Up' = FALSE /\ Told' = Told
  BY DEF Stop, Up, Told, callerVars
<1>4. QED
  BY <1>2, <1>3 DEF Promised!Stop

(* Every step of the driver is a step of CallSpec or changes nothing of it. *)
LEMMA StepRefines ==
  IInv /\ ClosedByStop /\ [Next]_vars => [Promised!Next]_<<Up, Done, Told>>
<1> SUFFICES ASSUME IInv, ClosedByStop, [Next]_vars
             PROVE  Promised!Next \/ UNCHANGED <<Up, Done, Told>>
  OBVIOUS
<1>t. /\ reply \in [Call -> {"none", "open", "ok", "err", "closed"}]
      /\ cmds \in Seq(Call) /\ Kind \in [Call -> {"immediate", "request", "shutdown"}]
  BY DriverAssumption DEF IInv, TypeOK
<1>1. ASSUME NEW c \in Call, CallStep(c)
      PROVE  Promised!Next \/ UNCHANGED <<Up, Done, Told>>
  BY <1>1, CallRefines, ZenonT(60) DEF Promised!Next
<1>2. ASSUME NEW c \in Call, run = "select", UNCHANGED <<run, caller>>, reply[c] = "open",
             \E r \in {"ok", "err"} : reply' = [reply EXCEPT ![c] = r]
      PROVE  Promised!Next
  <2>1. PICK r \in {"ok", "err"} : reply' = [reply EXCEPT ![c] = r]
    BY ZenonT(60), <1>2
  <2>2. Promised!Decide(c, r)
    BY ZenonT(60), <1>2, <1>t, <2>1, DecideRefines
  <2>3. QED
    BY <2>2, ZenonT(60) DEF Promised!Next
<1>3. ASSUME NEW c \in Call, Settle(c) PROVE Promised!Next
  <2>1. c \in pending /\ reply[c] = "open"
    BY <1>3 DEF Settle, IInv, PendingIsInFlight, OneSenderPerReply
  <2>2. QED
    BY <1>2, <1>3, <2>1 DEF Settle, callerVars
<1>4. ASSUME Stop, run # "stopped" PROVE Promised!Next
  BY <1>4, StopRefines DEF Promised!Next
<1>5. ASSUME UNCHANGED <<run, caller, reply>> PROVE UNCHANGED <<Up, Done, Told>>
  BY <1>5 DEF Up, Done, Told
<1>6. CASE HandleCommand
  <2>1. Head(cmds) \in Call /\ Head(cmds) \in Queued
    <3>1. cmds # <<>>
      BY <1>6 DEF HandleCommand
    <3>2. Len(cmds) \in Nat \ {0} /\ DOMAIN cmds = 1..Len(cmds) /\ Head(cmds) = cmds[1]
      BY <1>t, <3>1, LenProperties, EmptySeq
    <3>3. QED
      BY <1>t, <3>1, <3>2 DEF Queued
  <2>2. CASE Kind[Head(cmds)] = "shutdown"
    BY <1>4, <1>6, <2>2 DEF HandleCommand
  <2>3. CASE Kind[Head(cmds)] = "immediate"
    <3>1. reply[Head(cmds)] = "open"
      BY <2>1, <2>3 DEF IInv, OneSenderPerReply
    <3>2. QED
      BY <1>2, <1>6, <2>1, <2>3, <3>1 DEF HandleCommand, Immediate, callerVars
  <2>4. CASE Kind[Head(cmds)] \notin {"shutdown", "immediate"}
    BY <1>5, <1>6, <2>4 DEF HandleCommand, SendRequest, callerVars
  <2>5. QED
    BY <2>2, <2>3, <2>4
<1>7. CASE AllHandlesDropped \/ ConsumerGone
  BY <1>4, <1>7 DEF AllHandlesDropped, ConsumerGone
<1>8. CASE SwarmEvent \/ Sent
  BY <1>8 DEF SwarmEvent, Sent, callerVars, Up, Done, Told
<1>9. CASE Receive \/ DropHandles \/ DropConsumer \/ UNCHANGED vars
  BY <1>5, <1>9 DEF Receive, DropHandles, DropConsumer, vars
<1>10. QED
  BY <1>1, <1>3, <1>6, <1>7, <1>8, <1>9 DEF Next, RunStep

(* The driver keeps the promise of a NodeHandle, for any number of calls of any
   kind, over channels of any size: it implements CallSpec. *)
THEOREM DriverImplementsCallSpec == Spec => ImplementsCallSpec
<1>1. Init => Promised!Init /\ ClosedByStop
  BY DEF Init, Promised!Init, Up, Done, Told, ClosedByStop
<1>2. QED
  BY <1>1, ClosedPreserved, StepRefines, InductiveInvariant, PTL
  DEF Spec, ImplementsCallSpec, Promised!Spec
-----------------------------------------------------------------------------
(* The binary drives the node through its handle only: what holds of the driver
   of every application holds of the one in wakunode. *)
THEOREM MainUsesDriver == MainInit /\ [][MainNext]_mainVars => Spec
<1>1. MainInit => Init
  BY DEF MainInit
<1>2. [MainNext]_mainVars => [Next]_vars
  <2> SUFFICES ASSUME [MainNext]_mainVars PROVE [Next]_vars
    OBVIOUS
  <2>q. Quit \in Call /\ \A i \in DOMAIN Startup : Startup[i] \in Call
    BY MainAssumption
  <2>1. ASSUME NEW c \in Call, Begin(c) \/ Abandon(c) \/ Enqueue(c) \/ EnqueueFails(c)
                               \/ Return(c) \/ Settle(c)
        PROVE  Next
    BY <2>1 DEF Next, CallStep
  <2>2. CASE StartCall
    BY <2>q, <2>1, <2>2, ZenonT(60) DEF StartCall
  <2>3. CASE Signal
    BY <2>q, <2>1, <2>3, ZenonT(60) DEF Signal
  <2>4. CASE RecvEvent
    BY <2>4 DEF RecvEvent, Next
  <2>5. ASSUME NEW c \in Call, RestCall(c) \/ CallProgress(c) PROVE Next
    BY <2>1, <2>5, ZenonT(60) DEF RestCall, CallProgress
  <2>6. CASE DriverStep
    BY <2>6 DEF DriverStep, Next, RunStep
  <2>7. CASE Spawned \/ SpawnFails \/ StartupFails \/ Started \/ Exit
    BY <2>7 DEF Spawned, SpawnFails, StartupFails, Started, Exit
  <2>8. CASE UNCHANGED mainVars
    BY <2>8 DEF mainVars
  <2>9. QED
    BY <2>2, <2>3, <2>4, <2>5, <2>6, <2>7, <2>8, ZenonT(60) DEF MainNext
<1>3. QED
  BY <1>1, <1>2, PTL DEF Spec

(* The calls main and the REST server make get what CallSpec promises, until the
   process exits. *)
THEOREM MainImplementsCallSpec == MainInit /\ [][MainNext]_mainVars => ImplementsCallSpec
  BY MainUsesDriver, DriverImplementsCallSpec, PTL

(* Until a signal arrives the driver of wakunode runs, and no caller, of a
   start-up subscribe or of a REST call, is told NodeStopped. *)
OnlySignalStops ==
  main \in {"spawning", "starting", "loop"} =>
    run # "stopped" /\ \A c \in Call : caller[c] # "NodeStopped"

(* Shutdown is not called before, and it alone ends the driver: main keeps its
   handle and the receiver. *)
MainInv ==
  /\ main \in {"spawning", "starting", "loop"} => caller[Quit] = "idle"
  /\ caller[Quit] = "idle" => run # "stopped"
  /\ run # "stopped" => \A c \in Call : caller[c] # "NodeStopped" /\ reply[c] # "closed"

LEMMA MainInvPreserved == IInv /\ MainInv /\ [MainNext]_mainVars => MainInv'
<1> SUFFICES ASSUME IInv, MainInv, [MainNext]_mainVars PROVE MainInv'
  OBVIOUS
<1>t. /\ caller \in [Call -> {"idle", "sending", "waiting"} \cup Returned]
      /\ reply \in [Call -> {"none", "open", "ok", "err", "closed"}]
      /\ cmds \in Seq(Call) /\ Quit \in Call /\ inflight \in SUBSET Call
  BY MainAssumption DEF IInv, TypeOK
<1>1. ASSUME NEW c \in Call, Begin(c), c = Quit => main' = "stopping", main' = main \/ main' = "stopping"
      PROVE  MainInv'
  <2>1. /\ run' = run /\ reply' = reply /\ \A d \in Call : d # c => caller'[d] = caller[d]
        /\ caller'[c] = "sending" /\ caller[c] = "idle"
    BY <1>1, <1>t DEF Begin
  <2>2. QED
    BY <1>1, <1>t, <2>1 DEF MainInv
<1>2. ASSUME NEW c \in Call, Abandon(c) \/ Enqueue(c) \/ EnqueueFails(c) \/ Return(c), main' = main
      PROVE  MainInv'
  <2>1. /\ run' = run /\ \A d \in Call : d # c => caller'[d] = caller[d]
        /\ caller[c] \in {"sending", "waiting"} /\ caller'[c] # "idle"
    BY <1>2, <1>t DEF Abandon, Enqueue, EnqueueFails, Return, Returned
  <2>2. \A d \in Call : reply'[d] = reply[d] \/ reply'[d] = "open"
    BY <1>2, <1>t DEF Abandon, Enqueue, EnqueueFails, Return
  <2>3. run # "stopped" => caller'[c] # "NodeStopped"
    BY <1>2, <1>t DEF MainInv, Abandon, Enqueue, EnqueueFails, Return
  <2>4. caller[Quit] = "idle" <=> caller'[Quit] = "idle"
    BY <1>t, <2>1
  <2>5. QED
    BY <1>2, <2>1, <2>2, <2>3, <2>4 DEF MainInv
<1>3. ASSUME NEW c \in Call, Settle(c), main' = main PROVE MainInv'
  <2>1. run' = run /\ caller' = caller
    BY <1>3 DEF Settle, callerVars
  <2>2. \A d \in Call : reply'[d] = reply[d] \/ reply'[d] \in {"ok", "err"}
    BY <1>3, <1>t DEF Settle
  <2>3. QED
    BY <1>3, <2>1, <2>2 DEF MainInv
<1>4. ASSUME HandleCommand, main' = main PROVE MainInv'
  <2>1. cmds # <<>> /\ Head(cmds) \in Call /\ Head(cmds) \in Queued
    <3>1. cmds # <<>>
      BY <1>4 DEF HandleCommand
    <3>2. Len(cmds) \in Nat \ {0} /\ DOMAIN cmds = 1..Len(cmds) /\ Head(cmds) = cmds[1]
      BY <1>t, <3>1, LenProperties, EmptySeq
    <3>3. QED
      BY <1>t, <3>1, <3>2 DEF Queued
  <2>2. caller' = caller
    BY <1>4 DEF HandleCommand, Stop, callerVars
  <2>3. CASE Kind[Head(cmds)] = "shutdown"
    <3>1. Head(cmds) = Quit /\ run' = "stopped"
      BY <1>4, <2>1, <2>3, MainAssumption DEF HandleCommand, Stop
    <3>2. caller[Quit] # "idle"
      BY <1>t, <2>1, <3>1 DEF IInv, UnsentIsUnknown
    <3>3. QED
      BY <1>4, <2>2, <3>1, <3>2 DEF MainInv
  <2>4. CASE Kind[Head(cmds)] # "shutdown"
    <3>1. run' = run /\ \A d \in Call : reply'[d] = reply[d] \/ reply'[d] \in {"ok", "err"}
      BY <1>4, <1>t, <2>1, <2>4 DEF HandleCommand, Immediate, SendRequest
    <3>2. QED
      BY <1>4, <2>2, <3>1 DEF MainInv
  <2>5. QED
    BY <2>3, <2>4
<1>5. ASSUME SwarmEvent \/ Sent \/ Receive, main' = main PROVE MainInv'
  <2>1. caller' = caller /\ reply' = reply /\ (run' = "stopped" <=> run = "stopped")
    BY <1>5 DEF SwarmEvent, Sent, Receive, callerVars
  <2>2. QED
    BY <1>5, <2>1 DEF MainInv
<1>6. CASE StartCall
  <2>1. PICK i \in DOMAIN Startup : Begin(Startup[i])
    BY <1>6 DEF StartCall
  <2>2. Startup[i] \in Call /\ Startup[i] # Quit /\ main' = main
    BY <1>6, MainAssumption DEF StartCall
  <2>3. QED
    BY <1>1, <2>1, <2>2
<1>7. CASE Signal
  BY <1>1, <1>7, <1>t DEF Signal
<1>8. ASSUME NEW c \in Call, RestCall(c) PROVE MainInv'
  <2>1. c # Quit /\ main' = main /\ (Begin(c) \/ Abandon(c))
    BY <1>8 DEF RestCall, Own
  <2>2. QED
    BY <1>1, <1>2, <2>1
<1>9. ASSUME NEW c \in Call, CallProgress(c) PROVE MainInv'
  BY <1>2, <1>3, <1>9, ZenonT(60) DEF CallProgress
<1>10. CASE RecvEvent \/ DriverStep
  BY <1>4, <1>5, <1>10, ZenonT(60) DEF RecvEvent, DriverStep
<1>11. CASE Spawned \/ SpawnFails \/ StartupFails \/ Started \/ Exit
  <2>1. /\ caller' = caller /\ reply' = reply /\ run' = run
        /\ main' \in {"spawning", "starting", "loop"} => main \in {"spawning", "starting", "loop"}
    BY <1>11 DEF Spawned, SpawnFails, StartupFails, Started, Exit, vars
  <2>2. QED
    BY <2>1 DEF MainInv
<1>12. CASE UNCHANGED mainVars
  BY <1>12 DEF MainInv, mainVars, vars
<1>13. QED
  BY <1>6, <1>7, <1>8, <1>9, <1>10, <1>11, <1>12, ZenonT(60) DEF MainNext

(* Only the shutdown that follows a signal ends the driver of wakunode, and no
   call is answered NodeStopped before it. *)
THEOREM MainStopsOnSignal == MainInit /\ [][MainNext]_mainVars => []OnlySignalStops
<1>1. MainInit => MainInv
  BY MainAssumption DEF MainInit, Init, MainInv
<1>2. MainInit /\ [][MainNext]_mainVars => []IInv
  BY MainUsesDriver, InductiveInvariant, PTL
<1>3. MainInv => OnlySignalStops
  BY DEF MainInv, OnlySignalStops
<1>4. QED
  BY <1>1, <1>2, <1>3, MainInvPreserved, PTL
-----------------------------------------------------------------------------
(* main makes the calls of its start-up one after the other and goes on only if
   the one before did not fail. *)
InOrder ==
  main \in {"spawning", "starting"} =>
    \A i \in DOMAIN Startup : caller[Startup[i]] # "idle" =>
      \A j \in 1..(i - 1) : caller[Startup[j]] \in Returned /\ ~Failed(Startup[j])

LEMMA InOrderPreserved == IInv /\ InOrder /\ [MainNext]_mainVars => InOrder'
<1> SUFFICES ASSUME IInv, InOrder, [MainNext]_mainVars PROVE InOrder'
  OBVIOUS
<1>t. caller \in [Call -> {"idle", "sending", "waiting"} \cup Returned]
  BY DEF IInv, TypeOK
<1>s. /\ Len(Startup) \in Nat /\ DOMAIN Startup = 1..Len(Startup)
      /\ \A i \in DOMAIN Startup : Startup[i] \in Call \ {Quit}
      /\ \A i, j \in DOMAIN Startup : Startup[i] = Startup[j] => i = j
  BY MainAssumption, LenProperties
(* A call that was begun stays begun, and one that returned keeps its result. *)
<1>1. ASSUME main' \in {"spawning", "starting"} => main \in {"spawning", "starting"},
             \A i \in DOMAIN Startup :
               /\ caller'[Startup[i]] # "idle" => caller[Startup[i]] # "idle"
               /\ caller[Startup[i]] \in Returned => caller'[Startup[i]] = caller[Startup[i]]
      PROVE  InOrder'
  <2> SUFFICES ASSUME main' \in {"spawning", "starting"}, NEW i \in DOMAIN Startup,
                      caller'[Startup[i]] # "idle", NEW j \in 1..(i - 1)
               PROVE  caller'[Startup[j]] \in Returned /\ ~Failed(Startup[j])'
    BY DEF InOrder
  <2>1. caller[Startup[j]] \in Returned /\ ~Failed(Startup[j])
    BY <1>1 DEF InOrder
  <2>2. j \in DOMAIN Startup
    BY <1>s
  <2>3. QED
    BY <1>1, <2>1, <2>2 DEF Failed
<1>2. ASSUME NEW c \in Call, Abandon(c) \/ Enqueue(c) \/ EnqueueFails(c) \/ Return(c)
      PROVE  \A d \in Call : /\ caller'[d] # "idle" => caller[d] # "idle"
                             /\ caller[d] \in Returned => caller'[d] = caller[d]
  <2>1. /\ \A d \in Call : d # c => caller'[d] = caller[d]
        /\ caller[c] \in {"sending", "waiting"}
    BY <1>2, <1>t DEF Abandon, Enqueue, EnqueueFails, Return
  <2>2. QED
    BY <2>1 DEF Returned
<1>3. ASSUME NEW c \in Call, Begin(c)
      PROVE  /\ \A d \in Call : d # c => caller'[d] = caller[d]
             /\ caller[c] = "idle" /\ caller'[c] = "sending"
  BY <1>3, <1>t DEF Begin
<1>4. CASE StartCall
  <2>1. PICK i \in DOMAIN Startup :
          /\ \A j \in 1..(i - 1) : caller[Startup[j]] \in Returned /\ ~Failed(Startup[j])
          /\ Begin(Startup[i])
    BY <1>4 DEF StartCall
  <2>2. /\ \A d \in Call : d # Startup[i] => caller'[d] = caller[d]
        /\ caller[Startup[i]] = "idle"
    BY <1>3, <1>s, <2>1
  <2>3. \A d \in Call : caller[d] \in Returned => caller'[d] = caller[d]
    BY <2>2 DEF Returned
  <2> SUFFICES ASSUME NEW k \in DOMAIN Startup, caller'[Startup[k]] # "idle", NEW j \in 1..(k - 1)
               PROVE  caller'[Startup[j]] \in Returned /\ ~Failed(Startup[j])'
    BY DEF InOrder
  <2>4. caller[Startup[j]] \in Returned /\ ~Failed(Startup[j])
    <3>1. CASE k = i
      BY <2>1, <3>1
    <3>2. CASE k # i
      <4>1. caller[Startup[k]] # "idle"
        BY <1>s, <2>2, <3>2
      <4>2. QED
        BY <1>4, <4>1 DEF InOrder, StartCall
    <3>3. QED
      BY <3>1, <3>2
  <2>5. Startup[j] \in Call
    BY <1>s
  <2>6. QED
    BY <2>3, <2>4, <2>5 DEF Failed
<1>5. CASE Signal
  BY <1>5 DEF Signal, InOrder
<1>6. ASSUME NEW c \in Call, RestCall(c) PROVE InOrder'
  <2>1. main' = main /\ c \notin Own /\ (Begin(c) \/ Abandon(c))
    BY <1>6 DEF RestCall
  <2>2. \A i \in DOMAIN Startup : Startup[i] # c
    BY <2>1 DEF Own
  <2>3. \A i \in DOMAIN Startup : caller'[Startup[i]] = caller[Startup[i]]
    BY <1>s, <1>t, <2>1, <2>2 DEF Begin, Abandon
  <2>4. QED
    BY <1>1, <2>1, <2>3
<1>7. ASSUME NEW c \in Call, CallProgress(c) PROVE InOrder'
  <2>1. CASE Settle(c)
    BY <1>1, <1>7, <2>1 DEF CallProgress, Settle, callerVars
  <2>2. CASE Enqueue(c) \/ EnqueueFails(c) \/ Return(c)
    BY <1>1, <1>2, <1>7, <1>s, <2>2 DEF CallProgress
  <2>3. QED
    BY <1>7, <2>1, <2>2 DEF CallProgress
<1>8. CASE RecvEvent \/ DriverStep
  <2>1. caller' = caller /\ main' = main
    BY <1>8 DEF RecvEvent, DriverStep, Receive, HandleCommand, Stop, SwarmEvent, Sent, callerVars
  <2>2. QED
    BY <1>1, <2>1
<1>9. CASE Spawned \/ SpawnFails \/ StartupFails \/ Started \/ Exit
  <2>1. caller' = caller /\ (main' \in {"spawning", "starting"} => main \in {"spawning", "starting"})
    BY <1>9 DEF Spawned, SpawnFails, StartupFails, Started, Exit, vars
  <2>2. QED
    BY <1>1, <2>1
<1>10. CASE UNCHANGED mainVars
  BY <1>1, <1>10 DEF mainVars, vars
<1>11. QED
  BY <1>4, <1>5, <1>6, <1>7, <1>8, <1>9, <1>10, ZenonT(60) DEF MainNext

(* The steps that are left while the driver waits for room and main receives no
   event: calls are begun, abandoned or sent, results are fetched. *)
LEMMA WaitingSteps ==
  ASSUME IInv, DriverWaits, main \in {"starting", "stopping"}, MainNext
  PROVE  \/ StartCall \/ StartupFails \/ Started \/ Exit
         \/ \E c \in Call : RestCall(c) \/ (UNCHANGED main /\ (Enqueue(c) \/ Return(c)))
<1>1. run = "emitting" /\ events = EvtCap /\ EvtCap \in Nat
  BY DriverAssumption DEF DriverWaits
<1>2. ASSUME NEW c \in Call, CallProgress(c) PROVE UNCHANGED main /\ (Enqueue(c) \/ Return(c))
  BY <1>1, <1>2 DEF CallProgress, EnqueueFails, Settle
<1>3. ~DriverStep
  BY <1>1 DEF DriverStep, HandleCommand, SwarmEvent, Sent
<1>4. ~Spawned /\ ~SpawnFails /\ ~RecvEvent /\ ~Signal
  BY DEF Spawned, SpawnFails, RecvEvent, Signal
<1>5. QED
  BY <1>2, <1>3, <1>4, ZenonT(60) DEF MainNext

LEMMA StartupStaysStuck ==
  IInv /\ MainInv /\ InOrder /\ StartupStuck /\ [MainNext]_mainVars => StartupStuck'
<1> SUFFICES ASSUME IInv, MainInv, InOrder, StartupStuck, [MainNext]_mainVars PROVE StartupStuck'
  OBVIOUS
<1>t. /\ caller \in [Call -> {"idle", "sending", "waiting"} \cup Returned]
      /\ reply \in [Call -> {"none", "open", "ok", "err", "closed"}]
  BY DEF IInv, TypeOK
<1>s. /\ Len(Startup) \in Nat /\ DOMAIN Startup = 1..Len(Startup)
      /\ \A k \in DOMAIN Startup : Startup[k] \in Call \ {Quit}
      /\ Kind \in [Call -> {"immediate", "request", "shutdown"}]
      /\ \A c \in Call : Kind[c] = "shutdown" <=> c = Quit
  BY MainAssumption, DriverAssumption, LenProperties
<1>1. PICK i \in DOMAIN Startup :
        caller[Startup[i]] \in {"sending", "waiting"} /\ reply[Startup[i]] \in {"none", "open"}
  BY DEF StartupStuck
<1>2. main = "starting" /\ DriverWaits
  BY DEF StartupStuck
<1>3. ASSUME main' = main, run' = run, events' = events,
             caller'[Startup[i]] \in {"sending", "waiting"}, reply'[Startup[i]] \in {"none", "open"}
      PROVE  StartupStuck'
  BY <1>2, <1>3 DEF StartupStuck, DriverWaits
<1>4. CASE UNCHANGED mainVars
  BY <1>1, <1>3, <1>4 DEF mainVars, vars
<1>5. CASE StartCall
  <2>1. PICK k \in DOMAIN Startup :
          /\ \A j \in 1..(k - 1) : caller[Startup[j]] \in Returned /\ ~Failed(Startup[j])
          /\ Begin(Startup[k])
    BY <1>5 DEF StartCall
  <2>2. caller[Startup[k]] = "idle"
    BY <2>1 DEF Begin
  <2>3. caller'[Startup[i]] = caller[Startup[i]]
    BY <1>1, <1>t, <1>s, <2>1, <2>2 DEF Begin
  <2>4. UNCHANGED <<main, run, events, reply>>
    BY <1>5, <2>1 DEF StartCall, Begin
  <2>5. QED
    BY <1>1, <1>3, <2>3, <2>4
<1>6. ~StartupFails
  <2> SUFFICES ASSUME NEW c \in Own, Failed(c) PROVE FALSE
    BY DEF StartupFails
  <2>1. caller[c] \in Returned
    BY DEF Failed, Returned
  <2>2. c # Quit
    BY <1>2, <2>1 DEF MainInv, Returned
  <2>3. PICK k \in DOMAIN Startup : Startup[k] = c
    BY <2>2 DEF Own
  <2>4. CASE k < i
    BY <1>1, <1>2, <1>s, <2>3, <2>4 DEF InOrder
  <2>5. CASE k > i
    <3>1. caller[Startup[i]] \in Returned
      BY <1>2, <1>s, <2>1, <2>3, <2>5 DEF InOrder, Returned
    <3>2. QED
      BY <1>1, <3>1 DEF Returned
  <2>6. CASE k = i
    BY <1>1, <2>1, <2>3, <2>6 DEF Returned
  <2>7. QED
    BY <1>s, <2>4, <2>5, <2>6
<1>7. ~Started /\ ~Exit
  BY <1>1, <1>2 DEF Started, Exit, Returned
<1>8. ASSUME NEW c \in Call, RestCall(c) PROVE StartupStuck'
  <2>1. UNCHANGED <<main, run, events, reply>> /\ c # Startup[i] /\ (Begin(c) \/ Abandon(c))
    BY <1>8 DEF RestCall, Begin, Abandon, Own
  <2>2. caller'[Startup[i]] = caller[Startup[i]]
    BY <1>t, <1>s, <2>1 DEF Begin, Abandon
  <2>3. QED
    BY <1>1, <1>3, <2>1, <2>2
<1>9. ASSUME NEW c \in Call, UNCHANGED main, Enqueue(c) PROVE StartupStuck'
  <2>1. /\ run' = run /\ events' = events
        /\ c # Startup[i] => caller'[Startup[i]] = caller[Startup[i]] /\ reply'[Startup[i]] = reply[Startup[i]]
    BY <1>9, <1>t, <1>s DEF Enqueue
  <2>2. c = Startup[i] => reply'[Startup[i]] = "open"
    BY <1>9, <1>t, <1>s DEF Enqueue
  <2>3. c = Startup[i] /\ c \notin Dials => caller'[Startup[i]] = "waiting"
    BY <1>9, <1>t, <1>s DEF Enqueue
  <2>4. Startup[i] \notin Dials
    BY <1>s, MainAssumption
  <2>5. QED
    BY <1>1, <1>3, <1>9, <2>1, <2>2, <2>3, <2>4
<1>10. ASSUME NEW c \in Call, UNCHANGED main, Return(c) PROVE StartupStuck'
  <2>1. c # Startup[i]
    BY <1>1, <1>10 DEF Return
  <2>2. UNCHANGED <<run, events, reply>> /\ caller'[Startup[i]] = caller[Startup[i]]
    BY <1>10, <1>t, <1>s, <2>1 DEF Return
  <2>3. QED
    BY <1>1, <1>3, <1>10, <2>2
<1>11. QED
  BY <1>2, <1>4, <1>5, <1>6, <1>7, <1>8, <1>9, <1>10, WaitingSteps, ZenonT(60)

(* What a burst of events before main's loop does, whatever the capacities:
   once the driver waits for room in the event channel while main awaits a
   subscribe or a dial of its start-up, both wait for ever. *)
THEOREM StartupDeadlock ==
  MainInit /\ [][MainNext]_mainVars => [](StartupStuck => []StartupStuck)
<1>1. MainInit => MainInv /\ InOrder
  BY MainAssumption DEF MainInit, Init, MainInv, InOrder
<1>2. MainInit /\ [][MainNext]_mainVars => []IInv
  BY MainUsesDriver, InductiveInvariant, PTL
<1>3. QED
  BY <1>1, <1>2, MainInvPreserved, InOrderPreserved, StartupStaysStuck, PTL

LEMMA ShutdownStaysStuck ==
  IInv /\ ShutdownStuck /\ [MainNext]_mainVars => ShutdownStuck'
<1> SUFFICES ASSUME IInv, ShutdownStuck, [MainNext]_mainVars PROVE ShutdownStuck'
  OBVIOUS
<1>t. /\ caller \in [Call -> {"idle", "sending", "waiting"} \cup Returned]
      /\ Quit \in Call /\ CmdCap \in Nat
  BY MainAssumption, DriverAssumption DEF IInv, TypeOK
<1>1. main = "stopping" /\ DriverWaits /\ caller[Quit] = "sending" /\ Len(cmds) = CmdCap
  BY DEF ShutdownStuck
<1>2. ASSUME UNCHANGED <<main, run, events, cmds>>, caller'[Quit] = caller[Quit]
      PROVE  ShutdownStuck'
  BY <1>1, <1>2 DEF ShutdownStuck, DriverWaits
<1>3. CASE UNCHANGED mainVars
  BY <1>2, <1>3 DEF mainVars, vars
<1>4. ~StartCall /\ ~StartupFails /\ ~Started /\ ~Exit
  BY <1>1 DEF StartCall, StartupFails, Started, Exit
<1>5. ASSUME NEW c \in Call, RestCall(c) PROVE ShutdownStuck'
  <2>1. UNCHANGED <<main, run, events, cmds>> /\ c # Quit /\ (Begin(c) \/ Abandon(c))
    BY <1>5 DEF RestCall, Begin, Abandon, Own
  <2>2. caller'[Quit] = caller[Quit]
    BY <1>t, <2>1 DEF Begin, Abandon
  <2>3. QED
    BY <1>2, <2>1, <2>2
<1>6. ASSUME NEW c \in Call PROVE ~Enqueue(c)
  BY <1>1, <1>t DEF Enqueue
<1>7. ASSUME NEW c \in Call, UNCHANGED main, Return(c) PROVE ShutdownStuck'
  <2>1. c # Quit /\ UNCHANGED <<run, events, cmds>>
    BY <1>1, <1>7 DEF Return
  <2>2. caller'[Quit] = caller[Quit]
    BY <1>7, <1>t, <2>1 DEF Return
  <2>3. QED
    BY <1>2, <1>7, <2>1, <2>2
<1>8. QED
  BY <1>1, <1>3, <1>4, <1>5, <1>6, <1>7, WaitingSteps, ZenonT(60)

(* What stands against "graceful shutdown (Ctrl-C/SIGTERM -> clean stop)": main
   receives no event while it awaits room for its Shutdown, so that with both
   channels full it and the driver wait for ever. *)
THEOREM ShutdownDeadlock ==
  MainInit /\ [][MainNext]_mainVars => [](ShutdownStuck => []ShutdownStuck)
<1>1. MainInit /\ [][MainNext]_mainVars => []IInv
  BY MainUsesDriver, InductiveInvariant, PTL
<1>2. QED
  BY <1>1, ShutdownStaysStuck, PTL

(* Commands in the channel are distinct, so there are no more of them than
   there are calls in a set that holds them all. *)
LEMMA QueueInjects ==
  ASSUME NEW s \in Seq(Call), Distinct(s), NEW S, IsFiniteSet(S), Elems(s) \subseteq S
  PROVE  Len(s) <= Cardinality(S)
<1>1. Len(s) \in Nat /\ DOMAIN s = 1..Len(s)
  BY LenProperties
<1>2. s \in Injection(1..Len(s), S)
  BY <1>1 DEF Injection, IsInjective, Elems, Distinct
<1>3. Cardinality(1..Len(s)) <= Cardinality(S)
  BY <1>2, FS_Injection
<1>4. Cardinality(1..Len(s)) = Len(s)
  BY <1>1, FS_Interval
<1>5. QED
  BY <1>3, <1>4

(* The shutdown that follows a signal waits for room in the command channel
   only when as many calls as the channel holds are unanswered. *)
ShutdownBlockedIfBusy ==
  caller[Quit] = "sending" /\ Len(cmds) = CmdCap =>
    Cardinality({c \in Call : reply[c] = "open"}) >= CmdCap

(* How many calls it takes to get to ShutdownStuck: a process with fewer
   unanswered calls than the command channel has slots always finds room
   for its shutdown. *)
THEOREM ShutdownFindsRoom ==
  ASSUME IsFiniteSet(Call)
  PROVE  MainInit /\ [][MainNext]_mainVars => []ShutdownBlockedIfBusy
<1>1. IInv => ShutdownBlockedIfBusy
  <2> SUFFICES ASSUME IInv, caller[Quit] = "sending"
               PROVE  Len(cmds) <= Cardinality({c \in Call : reply[c] = "open"})
    BY DEF ShutdownBlockedIfBusy
  <2> DEFINE S == {c \in Call : reply[c] = "open"}
  <2>1. cmds \in Seq(Call) /\ Distinct(cmds) /\ Elems(cmds) = Queued
    BY DEF IInv, TypeOK, OneSenderPerReply, Distinct, Elems, Queued
  <2>2. Queued \subseteq Call
    BY <2>1 DEF Queued
  <2>3. Quit \notin Queued
    BY MainAssumption DEF IInv, UnsentIsUnknown
  <2>4. Queued \subseteq S
    BY <2>2, <2>3, MainAssumption DEF IInv, OneSenderPerReply
  <2>5. IsFiniteSet(S)
    BY FS_Subset
  <2>6. QED
    BY <2>1, <2>4, <2>5, QueueInjects
<1>2. MainInit /\ [][MainNext]_mainVars => []IInv
  BY MainUsesDriver, InductiveInvariant, PTL
<1>3. QED
  BY <1>1, <1>2, PTL
=============================================================================
