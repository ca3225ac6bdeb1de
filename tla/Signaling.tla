------------------------------ MODULE Signaling ------------------------------
(***************************************************************************)
(* The three pieces of signaling side by side: the gateway's handshake     *)
(* with its relay (Handshake), the candidates on their way to the worker   *)
(* (IceTrickle) and the server of fastapi/ (Monolith).  They share no      *)
(* variable.                                                               *)
(***************************************************************************)
EXTENDS Handshake

CONSTANTS
  IcePeers,        \* the peers of one session
  Candidates, Count, MaxIceFaults,
  Clients,         \* the calls of the server
  MaxClientMessages

VARIABLES pageSent, gatewayRead, log, gone, listener, last, batch, tried, gateway, iceFaults,
          handler, socket, messages, known, offered, ice, conn, iceRuns, connRuns, audio, video

Trickle == INSTANCE IceTrickle WITH
             Peers <- IcePeers, MaxFaults <- MaxIceFaults,
             sent <- pageSent, read <- gatewayRead, faults <- iceFaults

Server == INSTANCE Monolith WITH MaxMessages <- MaxClientMessages

ASSUME TrickleAssumption == Trickle!IceAssumption

trickleVars == <<pageSent, gatewayRead, log, gone, listener, last, batch, tried, gateway, iceFaults>>
serverVars == <<handler, socket, messages, known, offered, ice, conn, iceRuns, connRuns, audio, video>>

\* See IceTrickle: candidates are handed over in order, without a gap, and an entry once
\* (worker.py:132-168).
CandidatesInOrder == Trickle!CandidatesInOrder

\* See IceTrickle: a candidate in the stream reaches every peer (worker.py:134-170).
CandidateArrives == Trickle!CandidateArrives

\* See Monolith: the server closes the WebSocket of a call that is up
\* (webrtc_peer.py:98-125).
SocketIsClosed == Server!SocketIsClosed

\* See Monolith: a call that is over leaves active_connections
\* (webrtc_peer.py:110-119).
DeadPeerIsForgotten == Server!DeadPeerIsForgotten
=============================================================================
