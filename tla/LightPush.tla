----------------------------- MODULE LightPush -------------------------------
(***************************************************************************)
(* Light push (19/WAKU2-LIGHTPUSH) between light clients and a full node:  *)
(* the lightpush arms of handle_event and serve_lightpush in               *)
(* waku-node/src/runtime.rs on both sides, over the frames of Framing and  *)
(* behind the limiter of RateLimiter.  A stream may be cut after any byte; *)
(* a client may give up and push the same message in another call, while   *)
(* the first request is still on its way.                                  *)
(***************************************************************************)
EXTENDS RateLimiter, Framing

CONSTANTS
  Call,     \* light pushes, one after the other or several at once
  PeerOf,   \* the client that makes one
  Push,     \* what is pushed: messages, and NoMsg for a request without one
  NoMsg,
  Encoded,  \* encode_to_vec, of requests by message and of responses by status
  CacheTime,\* duplicate_cache_time, in ticks
  MaxStream \* bound: bytes of a stream

Status == {"200", "400", "429", "503"}

ASSUME PushAssumption ==
  /\ PeerOf \in [Call -> Peer] /\ CacheTime \in Nat \ {0}
  /\ \A x \in Push \cup Status : Encoded[x] \in Seq(Nat) /\ Len(Encoded[x]) < Word
  /\ \A x, y \in Push : Encoded[x] = Encoded[y] => x = y
  /\ \A x, y \in Status : Encoded[x] = Encoded[y] => x = y

VARIABLES
  call,     \* "new", "waiting", "failed", or the status the caller was given
  msg,      \* what it pushes
  request,  \* the request stream: "none", "sent" or "read"
  frame,    \* what read_request returned for it
  answer,   \* the status in its response stream, or "none"
  cached,   \* when gossipsub published a message last, Never if it has not
  by,       \* calls whose request made it publish
  at        \* and when

gossipVars == <<cached, by, at>>
pushVars == <<call, msg, request, frame, answer, gossipVars>>
allVars == <<vars, pushVars>>

Never == -1

PushInit ==
  /\ Init
  /\ call = [c \in Call |-> "new"] /\ msg = [c \in Call |-> NoMsg]
  /\ request = [c \in Call |-> "none"] /\ frame = [c \in Call |-> NoFrame]
  /\ answer = [c \in Call |-> "none"]
  /\ cached = [m \in Push |-> Never] /\ by = {} /\ at = [c \in Call |-> 0]

(* NodeHandle::light_push, once its command is handled. *)
LightPush(c, m) ==
  /\ call[c] # "waiting" /\ request[c] = "none"
  /\ call' = [call EXCEPT ![c] = "waiting"]
  /\ msg' = [msg EXCEPT ![c] = m]
  /\ request' = [request EXCEPT ![c] = "sent"]
  /\ by' = by \ {c} /\ at' = [at EXCEPT ![c] = 0]
  /\ UNCHANGED <<vars, frame, answer, cached>>

Sent(c) == WriteLp(Encoded[msg[c]])

(* The message, or the status, that a frame decodes to, if any. *)
Decoded(f, D) == {x \in D : f.ok /\ Encoded[x] = f.data}

(* read_request gets the first k bytes of the stream. *)
ReadRequest(c, k) ==
  /\ request[c] = "sent" /\ k <= Len(Sent(c))
  /\ LET f == ReadLp(SubSeq(Sent(c), 1, k)) IN
       /\ frame' = [frame EXCEPT ![c] = f]
       /\ request' = [request EXCEPT ![c] = IF f.ok THEN "read" ELSE "none"]
  /\ UNCHANGED <<vars, call, msg, answer, gossipVars>>

(* send_response; it goes nowhere if the client has given up. *)
Answer(c, s) ==
  /\ answer' = [answer EXCEPT ![c] = IF call[c] = "waiting" THEN s ELSE "none"]
  /\ request' = [request EXCEPT ![c] = "none"]
  /\ frame' = [frame EXCEPT ![c] = NoFrame]
  /\ UNCHANGED <<call, msg>>

Limited(c) ==
  /\ request[c] = "read"
  /\ Refilled(PeerOf[c]) < Period /\ Allow(PeerOf[c])
  /\ Answer(c, "429")
  /\ UNCHANGED gossipVars

(* The requests that the limiter lets through to serve_lightpush. *)
Served(c, m) ==
  /\ request[c] = "read"
  /\ Refilled(PeerOf[c]) >= Period /\ Allow(PeerOf[c])
  /\ m \in Decoded(frame[c], Push)

MissingMessage(c) ==
  /\ Served(c, NoMsg)
  /\ Answer(c, "400")
  /\ UNCHANGED gossipVars

(* What gossipsub's duplicate cache may have dropped, if it ever had it. *)
Forgotten(m) == cached[m] = Never \/ now - cached[m] >= CacheTime

(* gossipsub publishes a message that is not in its duplicate cache. *)
Published(c, m) ==
  /\ m # NoMsg /\ Served(c, m)
  /\ Forgotten(m)
  /\ cached' = [cached EXCEPT ![m] = now]
  /\ by' = by \cup {c} /\ at' = [at EXCEPT ![c] = now]
  /\ Answer(c, "200")

(* Mutant: a duplicate is as good as published. *)
PublishFailsQuietly(c, m) ==
  /\ m # NoMsg /\ Served(c, m)
  /\ Answer(c, IF ~Forgotten(m) THEN "200" ELSE "503")
  /\ UNCHANGED gossipVars

(* Or it has it already, or no peer to send it to. *)
PublishFails(c, m) ==
  /\ m # NoMsg /\ Served(c, m)
  /\ Answer(c, "503")
  /\ UNCHANGED gossipVars

(* read_response gets the first k bytes; the caller's oneshot is resolved. *)
ReadResponse(c, k) ==
  /\ answer[c] # "none"
  /\ LET reply == WriteLp(Encoded[answer[c]])
         got == Decoded(ReadLp(SubSeq(reply, 1, k)), Status)
     IN /\ k <= Len(reply)
        /\ call' = [call EXCEPT ![c] = IF got = {} THEN "failed" ELSE CHOOSE s \in got : TRUE]
  /\ answer' = [answer EXCEPT ![c] = "none"]
  /\ UNCHANGED <<vars, msg, request, frame, gossipVars>>

(* OutboundFailure: a timeout, a reset, a lost connection. *)
Fails(c) ==
  /\ call[c] = "waiting"
  /\ call' = [call EXCEPT ![c] = "failed"]
  /\ answer' = [answer EXCEPT ![c] = "none"]
  /\ UNCHANGED <<vars, msg, request, frame, gossipVars>>

PushNext ==
  \/ (Tick \/ \E p \in Peer : Open(p)) /\ UNCHANGED pushVars
  \/ \E c \in Call :
       \/ Limited(c) \/ MissingMessage(c) \/ Fails(c)
       \/ \E k \in 0..MaxStream : ReadRequest(c, k) \/ ReadResponse(c, k)
       \/ \E m \in Push : LightPush(c, m) \/ Published(c, m) \/ PublishFails(c, m)

PushSpec == PushInit /\ [][PushNext]_allVars
-----------------------------------------------------------------------------
(* What the server reads of a request is what the client wrote, or nothing: of
   a cut stream, and of a frame above the limit, which the writer does not
   enforce.  A complete frame within the limit is read. *)
FramesAreExact ==
  \A c \in Call :
    LET data == Encoded[msg[c]] IN
      /\ request[c] = "read" => frame[c].data = data /\ Len(data) <= MaxFrameLen
      /\ request[c] = "sent" /\ Len(data) <= MaxFrameLen => ReadLp(Sent(c)).ok

(* A caller is told 200 exactly when its own request made the node publish:
   not when an earlier copy of the message did, not when the limiter or
   gossipsub refused, and never from half a response.  So two calls that push
   one message, a retry included, are both told 200 only if the duplicate cache
   had time to forget it between them. *)
AnswersAreTrue ==
  /\ \A c \in Call : call[c] \in Status => ((call[c] = "200") <=> c \in by)
  /\ \A c, d \in Call :
       call[c] = "200" /\ call[d] = "200" /\ msg[c] = msg[d] /\ c # d
         => at[c] - at[d] >= CacheTime \/ at[d] - at[c] >= CacheTime
=============================================================================
