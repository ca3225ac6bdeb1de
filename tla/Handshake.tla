----------------------------- MODULE Handshake -----------------------------
(***************************************************************************)
(* The gateway's handshakes: the one-time session token that               *)
(* gateway/controllers/init_controller.py stores and                       *)
(* gateway/controllers/handshake_controller.py consumes, and the two       *)
(* loops that relay between the client's WebSocket and the worker's        *)
(* streams.  A connection is one run of ws_handshake, or of the HTTP       *)
(* handshake().  Of the worker the module assumes what OfferDelivery       *)
(* promises: an entry of the offer stream gets two answers at most.        *)
(* redis_client sends a call that timed out once more (redis_db.py:18): a  *)
(* call that succeeds may have run twice, one that fails up to twice.      *)
(***************************************************************************)
EXTENDS Integers, Sequences, FiniteSets

CONSTANTS
  Conns,        \* connections that clients open
  Sessions,     \* session ids that get_token makes up
  None,         \* no connection
  Transports,   \* bound: the transports the clients use
  MaxOffers,    \* bound: offers the client sends on one connection
  MaxInbox,     \* bound: messages that wait to be read
  MaxFaults     \* bound: Redis calls that fail or run twice, gateway processes that end

ASSUME HandshakeAssumption ==
  /\ None \notin Conns
  /\ Transports \subseteq {"ws", "http"}
  /\ MaxOffers \in Nat
  /\ MaxInbox \in Nat
  /\ MaxFaults \in Nat

\* "ignored": of another type.  "bad": not JSON, or an offer without its sdp.
Messages == {"offer", "candidate", "ignored", "bad"}

VARIABLES
  jwt,         \* the session's signed token
  key,         \* session:{id} is in Redis
  given,       \* the response with the token reached the client
  holder,      \* the connection whose GETDEL took the key
  stage,       \* where the handler of the connection is
  sess, via,   \* the session its token names; its transport
  up,          \* the client is connected
  inbox,       \* messages received by the server and not read
  sent,        \* offers the client sent
  clientLoop,  \* listen_to_client
  workerLoop,  \* listen_to_worker
  offers,      \* offers added to the worker stream for the session
  answers,     \* entries added to webrtc:answer:{id}
  expired,     \* of these, the ones the stream lost as it expired
  cursor,      \* answer_cursor: the last answer read
  answerSent,  \* answer_sent
  got,         \* answers the client received
  cut,         \* history: sends of an answer that the deadline cut
  faults

tokenVars == <<jwt, key, given, holder>>
clientVars == <<inbox, sent, clientLoop, offers>>
workerVars == <<workerLoop, cursor, answerSent, got, cut>>
answerVars == <<answers, expired>>
vars == <<tokenVars, stage, sess, via, up, clientVars, workerVars, answerVars, faults>>

Stages == {"idle", "token", "route", "accept", "open", "refused", "ended"}
Admitted == {"route", "accept", "open"}

TokenTypeOK ==
  /\ jwt \in [Sessions -> {"none", "valid", "expired"}]
  /\ key \in [Sessions -> BOOLEAN] /\ given \in [Sessions -> BOOLEAN]
  /\ holder \in [Sessions -> Conns \cup {None}]

HandlerTypeOK ==
  /\ stage \in [Conns -> Stages]
  /\ sess \in [Conns -> Sessions] /\ via \in [Conns -> {"ws", "http"}]
  /\ up \in [Conns -> BOOLEAN]

RelayTypeOK ==
  /\ inbox \in [Conns -> Seq(Messages)] /\ sent \in [Conns -> Nat]
  /\ clientLoop \in [Conns -> {"listen", "done"}]
  /\ workerLoop \in [Conns -> {"poll", "send", "done"}]
  /\ {offers, answers, expired} \subseteq [Sessions -> Nat]
  /\ {cursor, got, cut} \subseteq [Conns -> Nat]
  /\ answerSent \in [Conns -> BOOLEAN]

TypeOK == TokenTypeOK /\ HandlerTypeOK /\ RelayTypeOK /\ faults \in 0..MaxFaults

Init ==
  /\ jwt = [s \in Sessions |-> "none"]
  /\ key = [s \in Sessions |-> FALSE]
  /\ given = [s \in Sessions |-> FALSE]
  /\ holder = [s \in Sessions |-> None]
  /\ stage = [c \in Conns |-> "idle"]
  /\ sess \in [Conns -> Sessions]
  /\ via \in [Conns -> Transports]
  /\ up = [c \in Conns |-> FALSE]
  /\ inbox = [c \in Conns |-> <<>>]
  /\ sent = [c \in Conns |-> 0]
  /\ clientLoop = [c \in Conns |-> "listen"]
  /\ workerLoop = [c \in Conns |-> "poll"]
  /\ offers = [s \in Sessions |-> 0]
  /\ answers = [s \in Sessions |-> 0]
  /\ expired = [s \in Sessions |-> 0]
  /\ cursor = [c \in Conns |-> 0]
  /\ answerSent = [c \in Conns |-> FALSE]
  /\ got = [c \in Conns |-> 0]
  /\ cut = [c \in Conns |-> 0]
  /\ faults = 0

Fault == /\ faults < MaxFaults
         /\ faults' = faults + 1

Goto(c, to) == stage' = [stage EXCEPT ![c] = to]

----------------------------------------------------------------------------
(* get_token: the session's token. *)

\* Signed with "exp" first, stored for as many seconds after that; only then
\* does the client get it.
IssueToken(s) ==
  /\ jwt[s] = "none"
  /\ jwt' = [jwt EXCEPT ![s] = "valid"]
  /\ key' = [key EXCEPT ![s] = TRUE]
  /\ given' = [given EXCEPT ![s] = TRUE]
  /\ UNCHANGED <<holder, stage, sess, via, up, clientVars, workerVars, answerVars, faults>>

\* SET raises, with or without effect: the client gets an error instead.
PersistFails(s) ==
  /\ jwt[s] = "none"
  /\ Fault
  /\ jwt' = [jwt EXCEPT ![s] = "valid"]
  /\ \/ key' = [key EXCEPT ![s] = TRUE]
     \/ UNCHANGED key
  /\ UNCHANGED <<given, holder, stage, sess, via, up, clientVars, workerVars, answerVars>>

JwtExpires(s) ==
  /\ jwt[s] = "valid"
  /\ jwt' = [jwt EXCEPT ![s] = "expired"]
  /\ UNCHANGED <<key, given, holder, stage, sess, via, up, clientVars, workerVars, answerVars, faults>>

\* Both last TOKEN_EXPIRATION_SECONDS and the key was set later.
KeyAnyTtl(s) == TRUE \* mutant: a shorter ex=
KeyTtlOver(s) == jwt[s] = "expired"

KeyExpires(s) ==
  /\ key[s] /\ KeyTtlOver(s)
  /\ key' = [key EXCEPT ![s] = FALSE]
  /\ UNCHANGED <<jwt, given, holder, stage, sess, via, up, clientVars, workerVars, answerVars, faults>>

----------------------------------------------------------------------------
(* ws_handshake and handshake, up to the relay. *)

\* verify_raw_token / verify_token_credentials: the signature is the gateway's own
\* for every token a client was given, so only "exp" decides.
Verified(s) == jwt[s] = "valid"

Connect(c) ==
  /\ stage[c] = "idle" /\ given[sess[c]]
  /\ Goto(c, IF Verified(sess[c]) THEN "token" ELSE "refused")
  /\ up' = [up EXCEPT ![c] = TRUE]
  /\ UNCHANGED <<tokenVars, sess, via, clientVars, workerVars, answerVars, faults>>

\* The key's presence after GETDEL.
KeyLeft(s) == key[s] \* mutant: GET instead of GETDEL
AfterGetDel(s) == FALSE

TakeKey(c) ==
  /\ key[sess[c]]
  /\ key' = [key EXCEPT ![sess[c]] = AfterGetDel(sess[c])]
  /\ holder' = [holder EXCEPT ![sess[c]] = c]

\* handshake() goes on to a name it never assigned (token_raw): the request
\* ends in an error with the token used up.
Consume(c) ==
  /\ stage[c] = "token"
  /\ \/ /\ TakeKey(c)
        /\ Goto(c, IF via[c] = "ws" THEN "route" ELSE "refused")
     \/ /\ ~key[sess[c]]
        /\ Goto(c, "refused")
        /\ UNCHANGED <<key, holder>>
  /\ UNCHANGED <<jwt, given, sess, via, up, clientVars, workerVars, answerVars, faults>>

\* GETDEL raises, with or without effect, or takes the key, times out, and is sent
\* again to find none.
ConsumeFails(c) ==
  /\ stage[c] = "token"
  /\ Fault
  /\ TakeKey(c) \/ UNCHANGED <<key, holder>>
  /\ Goto(c, "refused")
  /\ UNCHANGED <<jwt, given, sess, via, up, clientVars, workerVars, answerVars>>

\* resolve_stream_key finds a stream, or the socket is closed (1013, 1011).
Route(c) ==
  /\ stage[c] = "route"
  /\ \E to \in {"accept", "refused"} : Goto(c, to)
  /\ UNCHANGED <<tokenVars, sess, via, up, clientVars, workerVars, answerVars, faults>>

\* websocket.accept() raises, or not, when the client is gone.
Accept(c) ==
  /\ stage[c] = "accept"
  /\ \/ Goto(c, "open")
     \/ ~up[c] /\ Goto(c, "refused")
  /\ UNCHANGED <<tokenVars, sess, via, up, clientVars, workerVars, answerVars, faults>>

----------------------------------------------------------------------------
(* The client and the worker tier. *)

ClientSends(c, msg) ==
  /\ stage[c] = "open" /\ up[c] /\ Len(inbox[c]) < MaxInbox
  /\ inbox' = [inbox EXCEPT ![c] = Append(@, msg)]
  /\ \/ /\ msg = "offer" /\ sent[c] < MaxOffers
        /\ sent' = [sent EXCEPT ![c] = @ + 1]
     \/ msg # "offer" /\ UNCHANGED sent
  /\ UNCHANGED <<tokenVars, stage, sess, via, up, clientLoop, offers, workerVars, answerVars, faults>>

\* It matters to nobody once the server has closed the socket.
ClientDisconnects(c) ==
  /\ up[c] /\ stage[c] # "refused"
  /\ up' = [up EXCEPT ![c] = FALSE]
  /\ UNCHANGED <<tokenVars, stage, sess, via, clientVars, workerVars, answerVars, faults>>

WorkerAnswers(s) ==
  /\ answers[s] < 2 * offers[s]
  /\ answers' = [answers EXCEPT ![s] = @ + 1]
  /\ UNCHANGED <<tokenVars, stage, sess, via, up, clientVars, workerVars, expired, faults>>

----------------------------------------------------------------------------
(* listen_to_client. *)

EndClientLoop(c) == clientLoop' = [clientLoop EXCEPT ![c] = "done"]
AddOffers(c, n) == offers' = [offers EXCEPT ![sess[c]] = @ + n]

\* An offer goes to the worker stream, a candidate to the ICE stream.  A bad
\* message, or an XADD that raises, ends the loop with the message read.
Receive(c) ==
  /\ stage[c] = "open" /\ clientLoop[c] = "listen" /\ inbox[c] # <<>>
  /\ inbox' = [inbox EXCEPT ![c] = Tail(@)]
  /\ LET msg == Head(inbox[c])
     IN \/ /\ msg = "offer"
           /\ \/ AddOffers(c, 1) /\ UNCHANGED faults
              \/ AddOffers(c, 2) /\ Fault
           /\ UNCHANGED clientLoop
        \/ /\ msg \in {"candidate", "ignored"}
           /\ UNCHANGED <<clientLoop, offers, faults>>
        \/ /\ msg = "bad"
           /\ EndClientLoop(c)
           /\ UNCHANGED <<offers, faults>>
        \/ /\ msg \in {"offer", "candidate"} /\ Fault
           /\ EndClientLoop(c)
           /\ IF msg = "offer" THEN \E n \in 0..2 : AddOffers(c, n) ELSE UNCHANGED offers
  /\ UNCHANGED <<tokenVars, stage, sess, via, up, sent, workerVars, answerVars>>

\* 10 s without a message, or the disconnect message.
ReceiveEnds(c) ==
  /\ stage[c] = "open" /\ clientLoop[c] = "listen" /\ inbox[c] = <<>>
  /\ EndClientLoop(c)
  /\ UNCHANGED <<tokenVars, stage, sess, via, up, inbox, sent, offers, workerVars, answerVars, faults>>

----------------------------------------------------------------------------
(* listen_to_worker. *)

ReadUpTo(c) == IF cursor[c] < expired[sess[c]] THEN expired[sess[c]] ELSE cursor[c]
Unread(c) == ReadUpTo(c) < answers[sess[c]]
GoWorkerLoop(c, to) == workerLoop' = [workerLoop EXCEPT ![c] = to]

\* The cursor first, then send_text.
TakeAnswer(c) ==
  /\ ~answerSent[c]
  /\ cursor' = [cursor EXCEPT ![c] = ReadUpTo(c) + 1]
  /\ GoWorkerLoop(c, "send")

\* Once an answer is sent, any later one is read and skipped.
SkipAnswers(c) ==
  /\ answerSent[c]
  /\ cursor' = [cursor EXCEPT ![c] = answers[sess[c]]]
  /\ UNCHANGED workerLoop

Poll(c) ==
  /\ stage[c] = "open" /\ workerLoop[c] = "poll" /\ Unread(c)
  /\ TakeAnswer(c) \/ SkipAnswers(c)
  /\ UNCHANGED <<tokenVars, stage, sess, via, up, clientVars, answerSent, got, cut, answerVars, faults>>

\* send_text returns and the loop ends.  On a closed socket it raises or is ignored.
ForgetAnswer(c) == UNCHANGED answerSent \* mutant: answer_sent is not set
NoteAnswer(c) == answerSent' = [answerSent EXCEPT ![c] = TRUE]

ClientGets(c) == got' = [got EXCEPT ![c] = @ + 1]

AnswerIsSent(c) ==
  /\ stage[c] = "open" /\ workerLoop[c] = "send"
  /\ \/ up[c] /\ ClientGets(c) /\ NoteAnswer(c)
     \/ ~up[c] /\ UNCHANGED got /\ (NoteAnswer(c) \/ UNCHANGED answerSent)
  /\ GoWorkerLoop(c, "done")
  /\ UNCHANGED <<tokenVars, stage, sess, via, up, clientVars, cursor, cut, answerVars, faults>>

\* wait_for's 60 s pass in send_text: what it wrote may still reach the client.
SendIsCut(c) ==
  /\ stage[c] = "open" /\ workerLoop[c] = "send"
  /\ (up[c] /\ ClientGets(c)) \/ UNCHANGED got
  /\ cut' = [cut EXCEPT ![c] = @ + 1]
  /\ GoWorkerLoop(c, "done")
  /\ UNCHANGED <<tokenVars, stage, sess, via, up, clientVars, cursor, answerSent, answerVars, faults>>

\* XREAD raises.
PollFails(c) ==
  /\ stage[c] = "open" /\ workerLoop[c] = "poll"
  /\ Fault
  /\ GoWorkerLoop(c, "done")
  /\ UNCHANGED <<tokenVars, stage, sess, via, up, clientVars, cursor, answerSent, got, cut, answerVars>>

\* 60 s have passed with nothing to read: XREAD returns at once otherwise.
NoDeadline(c) == FALSE \* mutant: no wait_for
DeadlineMayPass(c) == ~Unread(c)

PollTimesOut(c) ==
  /\ stage[c] = "open" /\ workerLoop[c] = "poll" /\ DeadlineMayPass(c)
  /\ GoWorkerLoop(c, "done")
  /\ UNCHANGED <<tokenVars, stage, sess, via, up, clientVars, cursor, answerSent, got, cut,
                 answerVars, faults>>

\* Where the next round reads on: the cursor outlives the round.
RoundFromNow(c) == answers[sess[c]] \* mutant: skip what is there
RoundFrom(c) == cursor[c]

\* gather returns when both loops ended, and "while True" starts both again.
Gather(c) ==
  /\ stage[c] = "open" /\ clientLoop[c] = "done" /\ workerLoop[c] = "done"
  /\ cursor' = [cursor EXCEPT ![c] = RoundFrom(c)]
  /\ clientLoop' = [clientLoop EXCEPT ![c] = "listen"]
  /\ GoWorkerLoop(c, "poll")
  /\ UNCHANGED <<tokenVars, stage, sess, via, up, inbox, sent, offers, answerSent, got, cut,
                 answerVars, faults>>

\* 360 s after the last answer; who polls has read it long before.
AnswersExpire(s) ==
  /\ expired[s] < answers[s]
  /\ \A c \in Conns : sess[c] = s /\ stage[c] = "open" /\ workerLoop[c] = "poll" => ~Unread(c)
  /\ expired' = [expired EXCEPT ![s] = answers[s]]
  /\ UNCHANGED <<tokenVars, stage, sess, via, up, clientVars, workerVars, answers, faults>>

\* The gateway process ends; what its finally blocks delete nobody reads.
GatewayEnds ==
  /\ Fault
  /\ stage' = [c \in Conns |-> IF stage[c] \in {"token"} \cup Admitted THEN "ended" ELSE stage[c]]
  /\ up' = [c \in Conns |-> FALSE]
  /\ UNCHANGED <<tokenVars, sess, via, clientVars, workerVars, answerVars>>

----------------------------------------------------------------------------
HandlerStep(c) == Consume(c) \/ ConsumeFails(c) \/ Route(c) \/ Accept(c)
ClientLoopStep(c) == Receive(c) \/ ReceiveEnds(c)
WorkerLoopStep(c) == \/ Poll(c) \/ AnswerIsSent(c) \/ SendIsCut(c)
                     \/ PollFails(c) \/ PollTimesOut(c)
ClientStep(c) == \/ Connect(c) \/ ClientDisconnects(c)
                 \/ \E msg \in Messages : ClientSends(c, msg)

Next ==
  \/ \E s \in Sessions : \/ IssueToken(s) \/ PersistFails(s)
                         \/ JwtExpires(s) \/ KeyExpires(s)
                         \/ WorkerAnswers(s) \/ AnswersExpire(s)
  \/ \E c \in Conns : \/ ClientStep(c) \/ HandlerStep(c) \/ ClientLoopStep(c)
                      \/ WorkerLoopStep(c) \/ Gather(c)
  \/ GatewayEnds

Spec == Init /\ [][Next]_vars

\* The event loop runs each handler, and a wait with a timeout ends.
Fairness ==
  \A c \in Conns : /\ WF_vars(HandlerStep(c))
                   /\ WF_vars(ClientLoopStep(c))
                   /\ WF_vars(WorkerLoopStep(c))
                   /\ WF_vars(Gather(c))

FairSpec == Spec /\ Fairness

----------------------------------------------------------------------------
(* Properties. *)

\* A session has one connection at most past the token check, however many
\* present the token at the same time: it is the one whose GETDEL took the key.
OnlyHolderAdmitted == \A c \in Conns : stage[c] \in Admitted => holder[sess[c]] = c

\* A token that was handed out and has not expired is refused only after a
\* connection has used it: the Redis key does not go before "exp" does.
ValidTokenIsHonoured ==
  \A s \in Sessions : given[s] /\ jwt[s] = "valid" /\ ~key[s] => holder[s] # None

\* However often the loops restart, the client of a connection gets one answer, only
\* one that was given to an offer of this session, and no entry twice.  More than
\* one it gets only after the deadline cut a send (handshake_controller.py:199-209, :234).
OneAnswer ==
  \A c \in Conns : /\ got[c] <= cut[c] + 1 /\ got[c] <= cursor[c]
                   /\ got[c] > 0 => offers[sess[c]] > 0 /\ holder[sess[c]] = c

\* A published answer reaches the client although the worker's loop may have timed out
\* before: provided that the client falls silent for 10 s again and again, without
\* which the loop does not restart (handshake_controller.py:139, :249), that the
\* deadline does not cut the send, and that the stream does not expire before.
FallsSilent(c) == []<>(clientLoop[c] = "done")
Lost(c) == cut[c] > 0 \/ expired[sess[c]] > 0 \/ ~up[c] \/ stage[c] = "ended"
AnswerIsForwarded ==
  \A c \in Conns :
    FallsSilent(c) => ((stage[c] = "open" /\ answers[sess[c]] > 0) ~> (got[c] > 0 \/ Lost(c)))

\* An offer of the client is read although the client's loop may have ended on an
\* error or a silence before (handshake_controller.py:246-253).
OfferWaits(c) == \E i \in DOMAIN inbox[c] : inbox[c][i] = "offer"
MessageIsRead ==
  \A c \in Conns : (stage[c] = "open" /\ OfferWaits(c)) ~> (~OfferWaits(c) \/ stage[c] = "ended")

\* The inductive invariants behind the first three.
TokenInv ==
  /\ OnlyHolderAdmitted
  /\ ValidTokenIsHonoured
  /\ \A s \in Sessions : /\ key[s] => holder[s] = None
                         /\ jwt[s] = "none" => ~key[s] /\ ~given[s] /\ holder[s] = None

AnswerInv ==
  /\ OneAnswer
  /\ \A c \in Conns :
       /\ got[c] > cut[c] => answerSent[c]
       /\ workerLoop[c] = "send" =>
            /\ ~answerSent[c] /\ got[c] < cursor[c]
            /\ offers[sess[c]] > 0 /\ holder[sess[c]] = c
  /\ \A s \in Sessions : answers[s] > 0 => offers[s] > 0

=============================================================================
