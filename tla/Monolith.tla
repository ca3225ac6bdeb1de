------------------------------ MODULE Monolith ------------------------------
(***************************************************************************)
(* The server of fastapi/, which is gateway and worker in one: a client's  *)
(* WebSocket has its handler (websocket_webrtc_signaling.py) and its peer  *)
(* with three callbacks (webrtc_peer.py).  The callbacks run in tasks of   *)
(* their own and read the states of the peer when they run.  The server    *)
(* closes the WebSocket once both states say that the call is up.          *)
(***************************************************************************)
EXTENDS Naturals, Sequences

CONSTANTS
  Clients,      \* WebSocket connections
  MaxMessages   \* bound: messages on one connection

VARIABLES
  handler,   \* signaling_handler: "none", "accept", "receive", "answer", "over"
  socket,    \* "open", or whose end is closed: "server", "client"
  messages,  \* received and not read
  known,     \* active_connections
  offered,   \* peers with a remote description
  ice,       \* pc.iceConnectionState
  conn,      \* pc.connectionState
  iceRuns,   \* scheduled runs of on_ice_state
  connRuns,  \* scheduled runs of on_conn_state
  audio,     \* the task of audio_pipeline: "none", "track", "created", "failed", "cut"
  video      \* _process_video: "none", "track", "running", "ended"

wsVars == <<handler, socket, messages>>
peerVars == <<known, offered, ice, conn, iceRuns, connRuns>>
taskVars == <<audio, video>>
vars == <<wsVars, peerVars, taskVars>>

Dead == {"failed", "closed"}

TypeOK ==
  /\ handler \in [Clients -> {"none", "accept", "receive", "answer", "over"}]
  /\ socket \in [Clients -> {"open", "server", "client"}]
  /\ messages \in [Clients -> Seq({"offer", "candidate", "bad"})]
  /\ known \subseteq Clients /\ offered \subseteq Clients
  /\ ice \in [Clients -> {"new", "completed"} \cup Dead]
  /\ conn \in [Clients -> {"new", "connected"} \cup Dead]
  /\ {iceRuns, connRuns} \subseteq [Clients -> Nat]
  /\ audio \in [Clients -> {"none", "track", "created", "failed", "cut"}]
  /\ video \in [Clients -> {"none", "track", "running", "ended"}]

Init ==
  /\ handler = [c \in Clients |-> "none"]
  /\ socket = [c \in Clients |-> "open"]
  /\ messages = [c \in Clients |-> <<>>]
  /\ known = {} /\ offered = {}
  /\ ice = [c \in Clients |-> "new"]
  /\ conn = [c \in Clients |-> "new"]
  /\ iceRuns = [c \in Clients |-> 0]
  /\ connRuns = [c \in Clients |-> 0]
  /\ audio = [c \in Clients |-> "none"]
  /\ video = [c \in Clients |-> "none"]

Goto(c, to) == handler' = [handler EXCEPT ![c] = to]

----------------------------------------------------------------------------
(* signaling_handler. *)

\* create_peer: nothing in it suspends.
NewPeer(c) == known' = known \cup {c}

Connect(c) ==
  /\ handler[c] = "none"
  /\ NewPeer(c)
  /\ Goto(c, "accept")
  /\ UNCHANGED <<socket, messages, offered, ice, conn, iceRuns, connRuns, taskVars>>

\* accept() of a client that is gone may raise: the peer stays.
Accept(c) ==
  /\ handler[c] = "accept"
  /\ \/ Goto(c, "receive")
     \/ socket[c] # "open" /\ Goto(c, "over")
  /\ UNCHANGED <<socket, messages, peerVars, taskVars>>

\* After the server has closed the socket a call of receive_text raises.
Onward(c) == IF socket[c] = "server" THEN "over" ELSE "receive"

\* setRemoteDescription: the first schedules on_track for both tracks; a bad
\* one raises, which ends the handler.
ApplyOffer(c) ==
  /\ offered' = offered \cup {c}
  /\ audio' = [audio EXCEPT ![c] = IF c \in offered THEN @ ELSE "track"]
  /\ video' = [video EXCEPT ![c] = IF c \in offered THEN @ ELSE "track"]
  /\ Goto(c, "answer")

\* addIceCandidate, with whatever it raises logged.
TakeCandidate(c) == Goto(c, Onward(c)) /\ UNCHANGED <<offered, taskVars>>

Receive(c) ==
  /\ handler[c] = "receive" /\ messages[c] # <<>>
  /\ messages' = [messages EXCEPT ![c] = Tail(@)]
  /\ \/ Head(messages[c]) = "offer" /\ ApplyOffer(c)
     \/ Head(messages[c]) = "candidate" /\ TakeCandidate(c)
     \/ Head(messages[c]) \in {"bad", "offer"} /\ Goto(c, "over") /\ UNCHANGED <<offered, taskVars>>
  /\ UNCHANGED <<socket, known, ice, conn, iceRuns, connRuns>>

\* The disconnect message; the peer is left alone.
ReceiveEnds(c) ==
  /\ handler[c] = "receive"
  /\ \/ socket[c] = "server"
     \/ socket[c] = "client" /\ messages[c] = <<>>
  /\ Goto(c, "over")
  /\ UNCHANGED <<socket, messages, peerVars, taskVars>>

\* setLocalDescription, which starts the connection, and send_text, which
\* raises on a socket the server has closed, and may on one the client has.
SendAnswer(c) ==
  /\ handler[c] = "answer"
  /\ \/ Goto(c, Onward(c))
     \/ socket[c] = "client" /\ Goto(c, "over")
  /\ UNCHANGED <<socket, messages, peerVars, taskVars>>

----------------------------------------------------------------------------
(* The client, and aiortc: ICE first, then DTLS on top of it. *)

ClientSends(c, m) ==
  /\ handler[c] \in {"receive", "answer"} /\ socket[c] = "open"
  /\ Len(messages[c]) < MaxMessages
  /\ messages' = [messages EXCEPT ![c] = Append(@, m)]
  /\ UNCHANGED <<handler, socket, peerVars, taskVars>>

ClientLeaves(c) ==
  /\ handler[c] # "none" /\ socket[c] = "open"
  /\ socket' = [socket EXCEPT ![c] = "client"]
  /\ UNCHANGED <<handler, messages, peerVars, taskVars>>

Negotiated(c) == c \in offered /\ handler[c] # "answer"

IceChanges(c, state) ==
  /\ Negotiated(c) /\ ice[c] \notin Dead /\ state # ice[c]
  /\ ice' = [ice EXCEPT ![c] = state]
  /\ iceRuns' = [iceRuns EXCEPT ![c] = @ + 1]
  /\ UNCHANGED <<wsVars, known, offered, conn, connRuns, taskVars>>

ConnChanges(c, state) ==
  /\ \/ state = "connected" /\ conn[c] = "new" /\ ice[c] = "completed"
     \/ state \in Dead /\ conn[c] \notin Dead /\ ice[c] # "new"
  /\ conn' = [conn EXCEPT ![c] = state]
  /\ connRuns' = [connRuns EXCEPT ![c] = @ + 1]
  /\ UNCHANGED <<wsVars, known, offered, ice, iceRuns, taskVars>>

----------------------------------------------------------------------------
(* The callbacks of create_peer. *)

IceConnectedOnly(c) == ice[c] = "connected" \* mutant: a state aiortc never has
IceIsUp(c) == ice[c] \in {"connected", "completed"}

\* ws.close(); a second one raises and is without effect.
CloseSocket(c) == socket' = [socket EXCEPT ![c] = IF @ = "open" THEN "server" ELSE @]

OnIceState(c) ==
  /\ iceRuns[c] > 0
  /\ iceRuns' = [iceRuns EXCEPT ![c] = @ - 1]
  /\ IF IceIsUp(c) /\ conn[c] = "connected" THEN CloseSocket(c) ELSE UNCHANGED socket
  /\ UNCHANGED <<handler, messages, known, offered, ice, conn, connRuns, taskVars>>

\* The tasks of the peer are cancelled: the audio pipeline only is among them.
EndPeer(c) ==
  /\ known' = known \ {c}
  /\ audio' = [audio EXCEPT ![c] = IF @ = "created" THEN "cut" ELSE @]

Failed(c) == conn[c] = "failed" \* mutant
Gone(c) == conn[c] \in {"failed", "closed"}

OnConnState(c) ==
  /\ connRuns[c] > 0
  /\ connRuns' = [connRuns EXCEPT ![c] = @ - 1]
  /\ IF Gone(c) THEN EndPeer(c) ELSE UNCHANGED <<known, audio>>
  /\ IF IceIsUp(c) /\ conn[c] = "connected" THEN CloseSocket(c) ELSE UNCHANGED socket
  /\ UNCHANGED <<handler, messages, offered, ice, conn, iceRuns, video>>

OnTrack(c) ==
  /\ \/ /\ audio[c] = "track"
        /\ audio' = [audio EXCEPT ![c] = "created"]
        /\ UNCHANGED video
     \/ /\ video[c] = "track"
        /\ video' = [video EXCEPT ![c] = "running"]
        /\ UNCHANGED audio
  /\ UNCHANGED <<wsVars, peerVars>>

\* audio_pipeline gets no further than resources["peer_connection"], which
\* nothing sets: it ends with a KeyError ahead of its try.
PipelineFails(c) ==
  /\ audio[c] = "created"
  /\ audio' = [audio EXCEPT ![c] = "failed"]
  /\ UNCHANGED <<wsVars, peerVars, video>>

\* The track ends, or a frame cannot be received.
VideoEnds(c) ==
  /\ video[c] = "running"
  /\ video' = [video EXCEPT ![c] = "ended"]
  /\ UNCHANGED <<wsVars, peerVars, audio>>

----------------------------------------------------------------------------
\* What the event loop runs.
Runs(c) == \/ Accept(c) \/ Receive(c) \/ ReceiveEnds(c) \/ SendAnswer(c)
           \/ OnTrack(c) \/ PipelineFails(c)

Next ==
  \E c \in Clients :
    \/ Connect(c) \/ Runs(c) \/ OnIceState(c) \/ OnConnState(c) \/ VideoEnds(c)
    \/ ClientLeaves(c)
    \/ \E m \in {"offer", "candidate", "bad"} : ClientSends(c, m)
    \/ \E s \in {"completed"} \cup Dead : IceChanges(c, s)
    \/ \E s \in {"connected"} \cup Dead : ConnChanges(c, s)

Spec == Init /\ [][Next]_vars

\* A callback that is scheduled runs.
Fairness == \A c \in Clients : WF_vars(Runs(c)) /\ WF_vars(OnIceState(c)) /\ WF_vars(OnConnState(c))

FairSpec == Spec /\ Fairness

----------------------------------------------------------------------------
\* Whichever of the two callbacks runs last finds both states up and has the
\* server close the WebSocket, unless the call has failed by then
\* (webrtc_peer.py:98-125).
SocketIsClosed ==
  \A c \in Clients :
    conn[c] = "connected" /\ ice[c] = "completed"
      ~> socket[c] # "open" \/ conn[c] \in Dead \/ ice[c] \in Dead

\* A call that is over is forgotten, whatever its end was and whatever the
\* handler is doing (webrtc_peer.py:110-119).
DeadPeerIsForgotten ==
  \A c \in Clients : conn[c] \in Dead ~> c \notin known
=============================================================================
