--------------------------- MODULE BrowserClient ---------------------------
(***************************************************************************)
(* The page: the connect button (connect_btn.js), the WebRTC controller    *)
(* (webrtc.js), the status display (header_status.js) and the microphone.  *)
(* A call of connect(), the socket it makes and the RTCPeerConnection its  *)
(* onopen makes bear the same number; 0 stands for null.  The server, a    *)
(* gateway, answers an offer with an answer and ICE candidates, which may  *)
(* come before it, and closes the socket when it likes.                    *)
(***************************************************************************)
EXTENDS MicControl, FiniteSets

CONSTANTS
  MaxCalls,        \* bound: calls of connect()
  MaxCandidates    \* bound: candidates the server sends on a socket

ASSUME ClientAssumption == MaxCalls \in Nat /\ MaxCandidates \in Nat

Calls == 1..MaxCalls

VARIABLES
  button,      \* <connect-btn>.state
  shown,       \* the status display
  wsOpen,      \* what it last heard of the socket
  stage,       \* where connect(), and then onopen, is
  ws,          \* this.ws
  socket,      \* readyState of each socket
  bound,       \* sockets with their handlers
  pc,          \* this.pc
  rtc,         \* connectionState of each peer connection, "none" before it is made
  offering,    \* peers with a local offer that is not answered
  described,   \* peers with a remote description
  madeOn,      \* the peer onopen makes its offer with
  asked,       \* sockets an offer was sent on
  target,      \* the peer the answer is set on
  answer,      \* the answer on each socket: "none", "setting", "flushing", "over"
  candidates,  \* candidates sent on each socket
  queue,       \* remoteCandidatesQueue: how many
  overlapped   \* history: connect() was called while another call had no socket yet

pageVars == <<button, shown, wsOpen>>
sockVars == <<stage, ws, socket, bound, asked, madeOn, overlapped>>
peerVars == <<pc, rtc, offering, described>>
signalVars == <<target, answer, candidates, queue>>
vars == <<micVars, pageVars, sockVars, peerVars, signalVars>>

Stages == {"none", "token", "servers", "opening", "offering", "over"}
TypeOK ==
  /\ MicTypeOK
  /\ button \in {"offline", "connecting", "connected"}
  /\ shown \in {"offline", "connecting", "connected"}
  /\ wsOpen \in BOOLEAN /\ overlapped \in BOOLEAN
  /\ stage \in [Calls -> Stages]
  /\ ws \in 0..MaxCalls /\ pc \in 0..MaxCalls
  /\ socket \in [Calls -> {"none", "connecting", "open", "closed"}]
  /\ rtc \in [Calls -> {"none", "new", "connected", "disconnected", "failed", "closed"}]
  /\ {bound, offering, described, asked} \subseteq SUBSET Calls
  /\ {madeOn, target} \subseteq [Calls -> 0..MaxCalls]
  /\ answer \in [Calls -> {"none", "setting", "flushing", "over"}]
  /\ candidates \in [Calls -> 0..MaxCandidates]
  /\ queue \in Nat

Init ==
  /\ MicInit
  /\ button = "offline" /\ shown = "offline" /\ wsOpen = FALSE
  /\ stage = [c \in Calls |-> "none"]
  /\ ws = 0 /\ pc = 0
  /\ socket = [c \in Calls |-> "none"]
  /\ rtc = [c \in Calls |-> "none"]
  /\ bound = {} /\ offering = {} /\ described = {} /\ asked = {}
  /\ madeOn = [c \in Calls |-> 0]
  /\ target = [c \in Calls |-> 0]
  /\ answer = [c \in Calls |-> "none"]
  /\ candidates = [c \in Calls |-> 0]
  /\ queue = 0
  /\ overlapped = FALSE

Goto(c, to) == stage' = [stage EXCEPT ![c] = to]
Connected == pc # 0 /\ rtc[pc] = "connected"

\* evaluate() of the status display: the peer first, then the socket.  FAILED
\* is not for long: disconnect() follows in the same task.
Shows(connected, open) ==
  shown' = IF connected THEN "connected" ELSE IF open THEN "connecting" ELSE "offline"

\* What the button makes of RTC_STATECHANGE.
ButtonHears(state) ==
  button' = IF state = "connected" THEN "connected"
            ELSE IF state \in {"disconnected", "failed", "closed"} THEN "offline" ELSE button

HearSocket(open) == wsOpen' = open /\ Shows(shown = "connected", open)

----------------------------------------------------------------------------
(* disconnect(), and the listeners on RTC_STATECHANGE. *)

\* The handlers go before the close; "closed" is announced by hand.
KeepPc == UNCHANGED peerVars \* mutant
DropPc == /\ rtc' = [rtc EXCEPT ![pc] = "closed"]
          /\ pc' = 0
          /\ UNCHANGED <<offering, described>>

Disconnect ==
  IF pc = 0 THEN UNCHANGED <<peerVars, shown>>
  ELSE DropPc /\ Shows(FALSE, wsOpen)

\* handleConnectionStateChange runs in the task that changes the state; on
\* "failed" disconnect() follows, and its "closed" is the last thing heard.
\* "connecting", which only changes what is shown before "connected", is left out.
RtcChanges ==
  /\ pc # 0 /\ pc \in described
  /\ \/ /\ rtc[pc] \in {"new", "disconnected"}
        /\ rtc' = [rtc EXCEPT ![pc] = "connected"]
        /\ ButtonHears("connected") /\ Shows(TRUE, wsOpen)
        /\ AutoEnable
        /\ UNCHANGED <<pc, offering, described>>
     \/ /\ rtc[pc] = "connected"
        /\ rtc' = [rtc EXCEPT ![pc] = "disconnected"]
        /\ ButtonHears("disconnected") /\ Shows(FALSE, wsOpen)
        /\ AutoDisable("disconnected")
        /\ UNCHANGED <<pc, offering, described>>
     \/ /\ rtc[pc] \in {"new", "connected", "disconnected"}
        /\ ButtonHears("failed")
        /\ AutoDisable("failed")
        /\ Disconnect
  /\ UNCHANGED <<wsOpen, sockVars, signalVars>>

----------------------------------------------------------------------------
(* The button. *)

\* The old socket loses its handlers and is closed; this.ws keeps it.
OnlyUnbind(c) == bound' = bound \ {ws} /\ UNCHANGED socket \* mutant: the old socket stays open
Rebind(c) == /\ bound' = bound \ {ws}
             /\ socket' = [k \in Calls |-> IF k = ws THEN "closed" ELSE socket[k]]

NoSocketYet(c) == stage[c] \in {"token", "servers"}

Click(c) ==
  /\ button = "offline" /\ stage[c] = "none" /\ \A k \in 1..(c - 1) : stage[k] # "none"
  /\ button' = "connecting"
  /\ Rebind(c)
  /\ Goto(c, "token")
  /\ overlapped' = (overlapped \/ \E k \in Calls : NoSocketYet(k))
  /\ UNCHANGED <<micVars, shown, wsOpen, ws, asked, madeOn, peerVars, signalVars>>

\* A call of connect() in flight goes on.
ClickAgain ==
  /\ button # "offline"
  /\ button' = "offline"
  /\ Disconnect
  /\ UNCHANGED <<micVars, wsOpen, sockVars, signalVars>>

----------------------------------------------------------------------------
(* connect(). *)

GotToken(c) ==
  /\ stage[c] = "token"
  /\ Goto(c, "servers")
  /\ UNCHANGED <<micVars, pageVars, ws, socket, bound, asked, madeOn, overlapped,
                 peerVars, signalVars>>

\* The socket of another call in flight is overwritten, not closed.
NewSocket(c) ==
  /\ stage[c] = "servers"
  /\ Goto(c, "opening")
  /\ ws' = c
  /\ socket' = [socket EXCEPT ![c] = "connecting"]
  /\ bound' = bound \cup {c}
  /\ UNCHANGED <<micVars, pageVars, asked, madeOn, overlapped, peerVars, signalVars>>

\* A fetch or its JSON fails: the button stays as it is.
FetchFails(c) ==
  /\ NoSocketYet(c)
  /\ Goto(c, "over")
  /\ UNCHANGED <<micVars, pageVars, ws, socket, bound, asked, madeOn, overlapped,
                 peerVars, signalVars>>

\* setupPeerConnection returns when there is a peer.
AlwaysNew(c) == pc' = c /\ rtc' = [rtc EXCEPT ![c] = "new"] \* mutant: no guard
SetupPeer(c) ==
  /\ pc' = IF pc = 0 THEN c ELSE pc
  /\ rtc' = IF pc = 0 THEN [rtc EXCEPT ![c] = "new"] ELSE rtc

OnOpen(c) ==
  /\ socket[c] = "connecting" /\ c \in bound
  /\ socket' = [socket EXCEPT ![c] = "open"]
  /\ SetupPeer(c)
  /\ madeOn' = [madeOn EXCEPT ![c] = pc']
  /\ Goto(c, "offering")
  /\ UNCHANGED <<micVars, pageVars, ws, bound, asked, overlapped, offering, described,
                 signalVars>>

\* sendOfferWebSocket
OfferSent == asked' = IF ws # 0 /\ socket[ws] = "open" THEN asked \cup {ws} ELSE asked

\* createOffer's second step is on this.pc: it fails when the offer was made by
\* another peer.
LocalOffer(c) == /\ pc = madeOn[c]
                 /\ offering' = offering \cup {pc}

\* The offer goes out on this.ws, which need not be the socket that opened.
OfferMade(c) ==
  /\ stage[c] = "offering"
  /\ Goto(c, "over")
  /\ \/ LocalOffer(c) /\ OfferSent /\ HearSocket(TRUE)
     \/ pc # madeOn[c] /\ UNCHANGED <<offering, asked, wsOpen, shown>>
  /\ UNCHANGED <<micVars, button, ws, socket, bound, madeOn, overlapped, pc, rtc, described, signalVars>>

\* onclose of one socket closes the one this.ws holds.
OnClose(c) ==
  /\ socket[c] \in {"connecting", "open"} /\ c \in bound
  /\ bound' = bound \ {ws}
  /\ socket' = [k \in Calls |-> IF k \in {c, ws} THEN "closed" ELSE socket[k]]
  /\ ws' = 0
  /\ HearSocket(FALSE)
  /\ UNCHANGED <<micVars, button, stage, asked, madeOn, overlapped, peerVars, signalVars>>

----------------------------------------------------------------------------
(* handleSignal. *)

Delivers(c) == c \in asked /\ c \in bound /\ socket[c] = "open"

\* An answer fails when there is no peer or none that waits for one.
OnAnswer(c) ==
  /\ Delivers(c) /\ answer[c] = "none"
  /\ answer' = [answer EXCEPT ![c] = IF pc \in offering THEN "setting" ELSE "over"]
  /\ offering' = offering \ {pc}
  /\ target' = [target EXCEPT ![c] = pc]
  /\ UNCHANGED <<micVars, pageVars, sockVars, pc, rtc, described, candidates, queue>>

\* handleRemoteTrack: the track of the call replaces the source of the speakers.
RemoteTrack(call) == AttachStream("remote", TrackOf(call), {})

\* The description is set, which announces the remote track.  Queued candidates follow, one by one.
DescriptionSet(c) ==
  /\ answer[c] = "setting"
  /\ IF rtc[target[c]] = "closed"
       THEN answer' = [answer EXCEPT ![c] = "over"] /\ UNCHANGED <<described, audioVars>>
       ELSE /\ answer' = [answer EXCEPT ![c] = "flushing"]
            /\ described' = described \cup {target[c]}
            /\ RemoteTrack(target[c])
  /\ UNCHANGED <<switchVars, pageVars, sockVars, pc, rtc, offering,
                 target, candidates, queue>>

\* The loop reads this.pc each time; without one, or with one that has no
\* description, the candidate is lost and the loop is left.
Flush(c) ==
  /\ answer[c] = "flushing"
  /\ IF queue = 0 THEN answer' = [answer EXCEPT ![c] = "over"] /\ UNCHANGED queue
     ELSE /\ queue' = queue - 1
          /\ answer' = IF pc \in described THEN answer ELSE [answer EXCEPT ![c] = "over"]
  /\ UNCHANGED <<micVars, pageVars, sockVars, peerVars, target, candidates>>

\* Added at once, queued, or lost when there is no peer.
OnCandidate(c) ==
  /\ Delivers(c) /\ candidates[c] < MaxCandidates
  /\ candidates' = [candidates EXCEPT ![c] = @ + 1]
  /\ queue' = IF pc # 0 /\ pc \notin described THEN queue + 1 ELSE queue
  /\ UNCHANGED <<micVars, pageVars, sockVars, peerVars, target, answer>>

----------------------------------------------------------------------------
Next ==
  \/ RtcChanges \/ ClickAgain
  \/ \E c \in Calls : \/ Click(c) \/ GotToken(c) \/ NewSocket(c) \/ FetchFails(c)
                      \/ OnOpen(c) \/ OfferMade(c) \/ OnClose(c)
                      \/ OnAnswer(c) \/ DescriptionSet(c) \/ Flush(c) \/ OnCandidate(c)
  \/ MicStep /\ UNCHANGED <<pageVars, sockVars, peerVars, signalVars>>

Spec == Init /\ [][Next]_vars

----------------------------------------------------------------------------
(* Properties. *)

\* The button offers to hang up, and the display says ONLINE, exactly while
\* the page's peer is connected, whatever clicks, connects in flight and
\* lost connections went before (connect_btn.js:41-82, webrtc.js:204-329).
PageTellsTheTruth ==
  /\ button = "connected" <=> Connected
  /\ shown = "connected" <=> Connected

\* No peer connection is left behind, all but this.pc are closed; and unless
\* connect() was called while another call was fetching, no socket is: every
\* one that is not closed is the one this.ws holds (webrtc.js:44-57, 138-152,
\* 204-220, 336-343).
NothingIsLeaked ==
  /\ \A c \in Calls : rtc[c] \in {"none", "closed"} \/ c = pc
  /\ overlapped \/ \A c \in Calls : socket[c] \in {"none", "closed"} \/ c = ws
=============================================================================
