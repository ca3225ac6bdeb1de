--------------------------- MODULE PeerLifecycle ---------------------------
(***************************************************************************)
(* The peers of one worker, in the detail MediaWorker abstracts from:      *)
(* create_peer with its callbacks (peer/factory.py), the dependencies that *)
(* end a session (worker/deps_provider.py), the pipeline runner            *)
(* (pipelines/audio_pipeline.py) and pc.close(), which takes time, tells   *)
(* the callbacks half way through and may be cancelled by them.            *)
(***************************************************************************)
EXTENDS IceServers

CONSTANT Peers   \* the calls of create_peer whose peers are followed

ASSUME PeerAssumption == Peers \subseteq Calls

VARIABLES
  offer,        \* process_message: "none", "applying", "answering", "over"
  conn,         \* pc.connectionState
  notices,      \* scheduled runs of on_conn_state; each reads conn when it runs
  registered,   \* peers in active_sessions
  pc,           \* "none", "open", "closing", "closed", or "half": the close was cancelled
  closer,       \* the task whose call closes the peer
  terminators,  \* scheduled close() calls of on_terminated
  task,         \* the audio pipeline
  cancel,       \* pipelines with a cancellation not yet delivered
  trace         \* the root observation: "none", "open", "ended"

peerVars == <<offer, conn, notices, registered, pc, closer, terminators, task, cancel, trace>>
vars == <<iceVars, peerVars>>

Dead == {"failed", "closed"}
Tasks == {"none", "tracked", "created", "running", "closing", "waiting", "done", "cut"}
Over == {"done", "cut"}
Closers == {"nobody", "handler", "terminator", "pipeline"}

TypeOK ==
  /\ IceTypeOK
  /\ offer \in [Peers -> {"none", "applying", "answering", "over"}]
  /\ conn \in [Peers -> {"new", "connected"} \cup Dead]
  /\ notices \in [Peers -> Nat]
  /\ registered \subseteq Peers
  /\ pc \in [Peers -> {"none", "open", "closing", "closed", "half"}]
  /\ closer \in [Peers -> Closers]
  /\ terminators \in [Peers -> Nat]
  /\ task \in [Peers -> Tasks]
  /\ cancel \subseteq Peers
  /\ trace \in [Peers -> {"none", "open", "ended"}]

Init ==
  /\ IceInit
  /\ offer = [p \in Peers |-> "none"]
  /\ conn = [p \in Peers |-> "new"]
  /\ notices = [p \in Peers |-> 0]
  /\ registered = {}
  /\ pc = [p \in Peers |-> "none"]
  /\ closer = [p \in Peers |-> "nobody"]
  /\ terminators = [p \in Peers |-> 0]
  /\ task = [p \in Peers |-> "none"]
  /\ cancel = {}
  /\ trace = [p \in Peers |-> "none"]

SetTask(p, to) == task' = [task EXCEPT ![p] = to]

----------------------------------------------------------------------------
(* create_peer, and what process_message does with the peer. *)

\* After the await on build_rtc_config nothing suspends until the peer is in
\* active_sessions.
CreatePeer(p) ==
  /\ ConfigBuilt(p)
  /\ pc' = [pc EXCEPT ![p] = "open"]
  /\ registered' = registered \cup {p}
  /\ offer' = [offer EXCEPT ![p] = "applying"]
  /\ UNCHANGED <<conn, notices, closer, terminators, task, cancel, trace>>

\* setRemoteDescription schedules on_track.
ApplyOffer(p) ==
  /\ offer[p] = "applying"
  /\ offer' = [offer EXCEPT ![p] = "answering"]
  /\ SetTask(p, "tracked")
  /\ UNCHANGED <<iceVars, conn, notices, registered, pc, closer, terminators, cancel, trace>>

AnswerOffer(p) ==
  /\ offer[p] = "answering"
  /\ offer' = [offer EXCEPT ![p] = "over"]
  /\ UNCHANGED <<iceVars, conn, notices, registered, pc, closer, terminators, task, cancel, trace>>

\* pc.close() marks the peer closed before its first await.
BeginClose(p, who) ==
  /\ pc' = [pc EXCEPT ![p] = IF @ = "open" THEN "closing" ELSE @]
  /\ closer' = [closer EXCEPT ![p] = IF pc[p] = "open" THEN who ELSE @]

\* A step of process_message raises: it closes the peer.
OfferFails(p) ==
  /\ offer[p] \in {"applying", "answering"}
  /\ Fault
  /\ offer' = [offer EXCEPT ![p] = "over"]
  /\ BeginClose(p, "handler")
  /\ UNCHANGED <<now, servers, expiresAt, fetch, lookedAt, config,
                 conn, notices, registered, terminators, task, cancel, trace>>

----------------------------------------------------------------------------
(* aiortc: the connection and the close. *)

Notify(p, state) ==
  /\ conn' = [conn EXCEPT ![p] = state]
  /\ notices' = [notices EXCEPT ![p] = @ + 1]

Connects(p) ==
  /\ offer[p] \in {"answering", "over"} /\ pc[p] = "open" /\ conn[p] = "new"
  /\ Notify(p, "connected")
  /\ UNCHANGED <<iceVars, offer, registered, pc, closer, terminators, task, cancel, trace>>

\* No path, or the client is gone; also while the peer is being closed.
ConnectionDies(p) ==
  /\ offer[p] \in {"answering", "over"} /\ pc[p] \in {"open", "closing"} /\ conn[p] \notin Dead
  /\ \E state \in Dead : Notify(p, state)
  /\ UNCHANGED <<iceVars, offer, registered, pc, closer, terminators, task, cancel, trace>>

\* The DTLS transport has stopped; close() goes on to the ICE transport.
TransportStops(p) ==
  /\ pc[p] = "closing" /\ conn[p] # "closed"
  /\ Notify(p, "closed")
  /\ UNCHANGED <<iceVars, offer, registered, pc, closer, terminators, task, cancel, trace>>

EndTrace(p) == /\ SetTask(p, "done")
               /\ trace' = [trace EXCEPT ![p] = "ended"]

\* close() returns: a pipeline that called it ends its trace at once.
CloseEnds(p) ==
  /\ pc[p] = "closing" /\ conn[p] = "closed"
  /\ pc' = [pc EXCEPT ![p] = "closed"]
  /\ IF closer[p] = "pipeline" THEN EndTrace(p) ELSE UNCHANGED <<task, trace>>
  /\ cancel' = IF closer[p] = "pipeline" THEN cancel \ {p} ELSE cancel
  /\ UNCHANGED <<iceVars, offer, conn, notices, registered, closer, terminators>>

----------------------------------------------------------------------------
(* The callbacks. *)

\* on_track: runs in a task of its own, perhaps on a peer closed meanwhile.
OnTrack(p) ==
  /\ task[p] = "tracked"
  /\ SetTask(p, "created")
  /\ UNCHANGED <<iceVars, offer, conn, notices, registered, pc, closer, terminators, cancel, trace>>

\* _cancel_tasks: every task of the peer that is not done.
CancelTasks(p) == cancel' = IF task[p] \in {"none", "tracked"} \cup Over THEN cancel ELSE cancel \cup {p}

\* on_terminated: schedules a close, leaves active_sessions.
Terminated(p) == /\ terminators' = [terminators EXCEPT ![p] = @ + 1]
                 /\ registered' = registered \ {p}

AnyState(p) == TRUE \* mutant
DeadNow(p) == conn[p] \in Dead

OnConnState(p) ==
  /\ notices[p] > 0
  /\ notices' = [notices EXCEPT ![p] = @ - 1]
  /\ IF DeadNow(p) THEN CancelTasks(p) /\ Terminated(p)
     ELSE UNCHANGED <<cancel, terminators, registered>>
  /\ UNCHANGED <<iceVars, offer, conn, pc, closer, task, trace>>

\* The task of on_terminated; a second close() of a peer is without effect.
LeavePcOpen(p) == UNCHANGED <<pc, closer>> \* mutant
CloseForGood(p) == BeginClose(p, "terminator")

CloseTerminated(p) ==
  /\ terminators[p] > 0
  /\ terminators' = [terminators EXCEPT ![p] = @ - 1]
  /\ CloseForGood(p)
  /\ UNCHANGED <<iceVars, offer, conn, notices, registered, task, cancel, trace>>

----------------------------------------------------------------------------
(* audio_pipeline. *)

\* A task that is cancelled before its first step never runs.
NeverRuns(p) ==
  /\ task[p] = "created" /\ p \in cancel
  /\ SetTask(p, "cut")
  /\ cancel' = cancel \ {p}
  /\ UNCHANGED <<iceVars, offer, conn, notices, registered, pc, closer, terminators, trace>>

StartTrace(p) ==
  /\ task[p] = "created" /\ p \notin cancel
  /\ SetTask(p, "running")
  /\ trace' = [trace EXCEPT ![p] = "open"]
  /\ UNCHANGED <<iceVars, offer, conn, notices, registered, pc, closer, terminators, cancel>>

\* start_observation raises ahead of the try: nobody closes the peer.
TraceFails(p) ==
  /\ task[p] = "created" /\ p \notin cancel
  /\ Fault
  /\ SetTask(p, "done")
  /\ UNCHANGED <<now, servers, expiresAt, fetch, lookedAt, config,
                 offer, conn, notices, registered, pc, closer, terminators, cancel, trace>>

\* The finally clause: the tracks stop and close() is called.  While another
\* task closes the peer it returns at once or waits, as aiortc's version has it.
CloseInFinally(p) ==
  /\ BeginClose(p, "pipeline")
  /\ \/ pc[p] = "open" /\ SetTask(p, "closing") /\ UNCHANGED trace
     \/ pc[p] = "closing" /\ SetTask(p, "waiting") /\ UNCHANGED trace
     \/ pc[p] # "open" /\ EndTrace(p)

\* The workflow ends: the track has ended, the caller was hung up on, a stage
\* raised, or the task was cancelled.
WorkflowEnds(p) ==
  /\ task[p] = "running"
  /\ cancel' = cancel \ {p}
  /\ CloseInFinally(p)
  /\ UNCHANGED <<iceVars, offer, conn, notices, registered, terminators>>

\* The speech stages catch CancelledError and go on.
CancelSwallowed(p) ==
  /\ task[p] = "running" /\ p \in cancel
  /\ cancel' = cancel \ {p}
  /\ UNCHANGED <<iceVars, offer, conn, notices, registered, pc, closer, terminators, task, trace>>

WaitEnds(p) ==
  /\ task[p] = "waiting" /\ pc[p] = "closed"
  /\ EndTrace(p)
  /\ cancel' = cancel \ {p}
  /\ UNCHANGED <<iceVars, offer, conn, notices, registered, pc, closer, terminators>>

\* CancelledError in "await pc.close()" passes "except Exception": a close of
\* one's own stops half way, and the trace is never ended.
CloseCut(p) ==
  /\ task[p] \in {"closing", "waiting"} /\ p \in cancel
  /\ SetTask(p, "cut")
  /\ cancel' = cancel \ {p}
  /\ pc' = [pc EXCEPT ![p] = IF task[p] = "closing" THEN "half" ELSE @]
  /\ UNCHANGED <<iceVars, offer, conn, notices, registered, closer, terminators, trace>>

----------------------------------------------------------------------------
\* The cache is shared with the calls that are not followed.
IceStep == /\ \/ Tick
              \/ \E p \in Calls : AskCloudflare(p)
              \/ \E p \in Calls \ Peers : ConfigBuilt(p)
           /\ UNCHANGED peerVars

\* What the event loop runs without anybody's doing.
Runs(p) == \/ CreatePeer(p) \/ ApplyOffer(p) \/ AnswerOffer(p) \/ OnTrack(p) \/ OnConnState(p)
           \/ CloseTerminated(p) \/ TransportStops(p) \/ CloseEnds(p)
           \/ NeverRuns(p) \/ StartTrace(p) \/ CloseCut(p) \/ WaitEnds(p)

Next ==
  \/ IceStep
  \/ \E p \in Peers : \/ Runs(p) \/ OfferFails(p)
                      \/ Connects(p) \/ ConnectionDies(p)
                      \/ TraceFails(p) \/ WorkflowEnds(p) \/ CancelSwallowed(p)

Spec == Init /\ [][Next]_vars

\* A closed peer stops its receivers, so the source of its pipeline ends.
SourceEnds(p) == pc[p] # "open" /\ WorkflowEnds(p)

FairSpec == Spec /\ \A p \in Peers : WF_vars(Runs(p)) /\ WF_vars(SourceEnds(p))

----------------------------------------------------------------------------
(* Properties. *)

\* Once the connection is dead or the pipeline has called close(): the
\* pipeline ends, the session is out of active_sessions and the peer is
\* closed, or as far as the pipeline's own close got before it was cut
\* (factory.py:67-79, deps_provider.py:90-94, audio_pipeline.py:99-121).
CallIsOver(p) == conn[p] \in Dead \/ pc[p] \in {"closing", "closed", "half"}
Released(p) == /\ p \notin registered
               /\ pc[p] \in {"closed", "half"}
               /\ task[p] \in {"none"} \cup Over
EndedCallIsReleased == \A p \in Peers : CallIsOver(p) ~> Released(p)

\* The trace of a call that is over was ended, unless the pipeline was
\* cancelled in its finally clause: by the "closed" its own close announced,
\* or by a death that went before it.  Then the session is already removed.
LostTraceHasCause ==
  \A p \in Peers :
    task[p] \in Over /\ trace[p] = "open" => conn[p] \in Dead /\ p \notin registered
=============================================================================
