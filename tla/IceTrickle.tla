----------------------------- MODULE IceTrickle -----------------------------
(***************************************************************************)
(* The client's ICE candidates of one session: sent by the page as they    *)
(* are found (webrtc.js), written by the gateway to webrtc:client:ice:{id} *)
(* (handshake_controller.py), read by listen_for_ice_candidates, which     *)
(* process_message (worker.py) starts for each peer it builds; a second    *)
(* offer on the socket gives the session a second peer.  A candidate is    *)
(* the number of its message, and the last message is the end of           *)
(* candidates; an entry of the stream is its place in it, which orders     *)
(* entries as their ids do.  Whether aiortc accepts a candidate changes    *)
(* nothing here: the listener goes on either way.                          *)
(***************************************************************************)
EXTENDS Integers, Sequences, FiniteSets, FiniteSetsExt, Functions

CONSTANTS
  Peers,       \* the peers that workers build for the session
  Candidates,  \* candidates that the page finds
  Count,       \* entries of one XREAD
  MaxFaults    \* bound: Redis calls that fail or run twice, and workers that end

\* What is assumed of them; the module that gives them values states it.
IceAssumption ==
  /\ Candidates \in Nat
  /\ Count \in Nat \ {0}
  /\ MaxFaults \in Nat

End == Candidates + 1
Messages == 1..End

VARIABLES
  sent,      \* messages that the page has sent
  read,      \* messages that the gateway has read
  log,       \* messages added to the stream, ever
  gone,      \* entries up to this one have expired or were deleted
  listener,  \* "none", "read": awaits XREAD, "add": works on its batch, "ended"
  last,      \* last_id
  batch,     \* entries read and not yet taken
  tried,     \* entries handed to addIceCandidate, in order
  gateway,   \* the gateway process of the session runs
  faults

streamVars == <<sent, read, log, gone, gateway>>
listenVars == <<listener, last, batch, tried>>
vars == <<streamVars, listenVars, faults>>

TypeOK ==
  /\ {sent, read} \subseteq 0..End /\ read <= sent
  /\ log \in Seq(1..read) /\ gone \in 0..Len(log)
  /\ listener \in [Peers -> {"none", "read", "add", "ended"}]
  /\ last \in [Peers -> 0..Len(log)]
  /\ batch \in [Peers -> SUBSET (1..Len(log))]
  /\ tried \in [Peers -> Seq(1..Len(log))]
  /\ gateway \in BOOLEAN
  /\ faults \in 0..MaxFaults

Init ==
  /\ sent = 0 /\ read = 0 /\ log = <<>> /\ gone = 0
  /\ listener = [p \in Peers |-> "none"]
  /\ last = [p \in Peers |-> 0]
  /\ batch = [p \in Peers |-> {}]
  /\ tried = [p \in Peers |-> <<>>]
  /\ gateway = TRUE
  /\ faults = 0

Fault == faults < MaxFaults /\ faults' = faults + 1

----------------------------------------------------------------------------
(* The page and the gateway. *)

SendCandidate ==
  /\ sent < End
  /\ sent' = sent + 1
  /\ UNCHANGED <<read, log, gone, gateway, listenVars, faults>>

\* XADD and EXPIRE in one transaction, which redis_client sends once more after a
\* time-out: it may run twice, whether the call raises or not.  A message is not
\* read again.
Forward ==
  /\ gateway /\ read < sent
  /\ read' = read + 1
  /\ \/ log' = Append(log, read') /\ UNCHANGED faults
     \/ Fault /\ log' \in {log, Append(log, read'), log \o <<read', read'>>}
  /\ UNCHANGED <<sent, gone, gateway, listenVars>>

\* Ten minutes without a candidate.
Expire ==
  /\ gone < Len(log)
  /\ gone' = Len(log)
  /\ UNCHANGED <<sent, read, log, gateway, listenVars, faults>>

\* The finally of ws_handshake deletes the stream; a crash does not.
GatewayEnds ==
  /\ gateway /\ gateway' = FALSE
  /\ gone' \in {gone, Len(log)}
  /\ UNCHANGED <<sent, read, log, listenVars, faults>>

----------------------------------------------------------------------------
(* The worker. *)

FirstFromNow == Len(log) \* mutant: from "$"
FirstId == 0

\* process_message: the listener starts ahead of setRemoteDescription and is
\* nobody's to stop: it outlives its peer.
StartPeer(p) ==
  /\ listener[p] = "none"
  /\ listener' = [listener EXCEPT ![p] = "read"]
  /\ last' = [last EXCEPT ![p] = FirstId]
  /\ UNCHANGED <<streamVars, batch, tried, faults>>

New(p) == {i \in DOMAIN log : i > gone /\ i > last[p]}
FirstOf(S) == {i \in S : Cardinality({j \in S : j <= i}) <= Count}

Read(p) ==
  /\ listener[p] = "read" /\ New(p) # {}
  /\ listener' = [listener EXCEPT ![p] = "add"]
  /\ batch' = [batch EXCEPT ![p] = FirstOf(New(p))]
  /\ UNCHANGED <<streamVars, last, tried, faults>>

\* XREAD raises: logged, and tried again a second later.
EndListener(p) == listener' = [listener EXCEPT ![p] = "none"] \* mutant: no inner try
KeepListener(p) == UNCHANGED listener

ReadFails(p) ==
  /\ listener[p] = "read"
  /\ Fault
  /\ KeepListener(p)
  /\ UNCHANGED <<streamVars, last, batch, tried>>

KeepCursor(p, i) == UNCHANGED last \* mutant: last_id is not advanced
Advance(p, i) == last' = [last EXCEPT ![p] = i]

\* The cursor first, then the candidate, which may be refused.
Add(p) ==
  /\ listener[p] = "add"
  /\ LET i == Min(batch[p])
     IN /\ Advance(p, i)
        /\ tried' = [tried EXCEPT ![p] = Append(@, i)]
        /\ batch' = [batch EXCEPT ![p] = @ \ {i}]
  /\ listener' = [listener EXCEPT ![p] = IF batch'[p] = {} THEN "read" ELSE "add"]
  /\ UNCHANGED <<streamVars, faults>>

\* The process of the worker ends, and with it every task of the peer.
WorkerEnds(p) ==
  /\ listener[p] \in {"read", "add"}
  /\ Fault
  /\ listener' = [listener EXCEPT ![p] = "ended"]
  /\ batch' = [batch EXCEPT ![p] = {}]
  /\ UNCHANGED <<streamVars, last, tried>>

Next ==
  \/ SendCandidate \/ Forward \/ Expire \/ GatewayEnds
  \/ \E p \in Peers : \/ StartPeer(p) \/ Read(p) \/ ReadFails(p)
                      \/ Add(p) \/ WorkerEnds(p)

\* The event loop resumes a task whose call has returned; XREAD returns when
\* there is an entry.
Fairness == \A p \in Peers : WF_vars(Read(p)) /\ WF_vars(Add(p))

Spec == Init /\ [][Next]_vars
FairSpec == Spec /\ Fairness

----------------------------------------------------------------------------
\* A peer is given the candidates in the order of the page, each as often as it is in
\* the stream, and its cursor passes none that it was not given, unless the entry had
\* gone: whatever XREADs fail and however late the listener starts
\* (handshake_controller.py:158-163, worker.py:132-168).
CandidatesInOrder ==
  \A p \in Peers :
    /\ \A i, j \in DOMAIN tried[p] :
         i < j => tried[p][i] < tried[p][j] /\ log[tried[p][i]] <= log[tried[p][j]]
    /\ \A e \in DOMAIN log : e <= last[p] => e \in Range(tried[p]) \/ e <= gone

\* While the worker lives, a listener catches up with the stream again and again: the
\* entries reach every peer of the session, or expire (worker.py:134-170).
CaughtUp(p) == \A e \in DOMAIN log : e \in Range(tried[p]) \/ e <= gone
CandidateArrives ==
  \A p \in Peers :
    listener[p] \in {"read", "add"} ~> CaughtUp(p) \/ listener[p] = "ended"
=============================================================================
