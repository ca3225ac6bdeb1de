---------------------------- MODULE MediaWorker ----------------------------
(***************************************************************************)
(* The media workers of one tier and region: worker/worker.py with         *)
(* deps_provider.py and peer/factory.py.  Each worker process reads offers *)
(* from the shared stream, handles each in a task of its own, keeps its    *)
(* peers in active_sessions, reclaims idle entries, and drains and shuts   *)
(* down on SIGTERM.  A handler is identified by the offer it handles.      *)
(***************************************************************************)
EXTENDS OfferStream

CONSTANTS
  MaxConcurrent,         \* MAX_CONCURRENT
  Headroom,              \* the 5 of get_batch_size: slots that count as "nearly full"
  MidBatch, FullBatch,   \* the 5 and the 10 of get_batch_size
  MaxOffersPerSession,   \* bound: offers the clients send in one session
  MaxFaults,             \* bound: failed or timed-out calls, failed connections, crashes
  OfferKinds             \* bound: the kinds of offers the clients send

ASSUME WorkerAssumption ==
  /\ MaxConcurrent \in Nat \ {0}
  /\ Headroom \in Nat
  /\ MidBatch \in Nat \ {0}
  /\ FullBatch \in Nat \ {0}
  /\ MaxOffersPerSession \in Nat
  /\ MaxFaults \in Nat
  /\ OfferKinds \subseteq Kinds

VARIABLES
  phase,       \* where main() of the worker is
  stop,        \* stop_event
  want,        \* COUNT of the outstanding XREADGROUP, 0 when none
  batch,       \* entries in the reply of read_task, no task created yet
  snapshot,    \* entries reclaim_abandoned still has to claim
  permits,     \* the semaphore's value
  active,      \* active_sessions: the offer whose peer the entry holds, or 0
  host,        \* the worker handling the offer
  step,        \* where process_message of the offer is
  pc,          \* the offer's RTCPeerConnection
  events,      \* connectionstatechange events whose handler has not run
  closeTasks,  \* peers in use with a pc.close() task created by on_terminated
  listening,   \* offers whose listen_for_ice_candidates task runs
  answers,     \* history: entries added to webrtc:answer:{sid} for the offer
  acked,       \* history: offers a worker acknowledged
  faults       \* failures so far

procVars == <<phase, stop, want, batch, snapshot>>
taskVars == <<permits, host, step, answers, acked>>
peerVars == <<active, pc, events, closeTasks, listening>>
vars == <<streamVars, procVars, taskVars, peerVars, faults>>

Phases == {"down", "created", "create_failed", "loop", "drain", "shutdown",
           "leaving", "exited", "aborted", "crashed"}
Ended == {"exited", "aborted", "crashed"}
Holding == {"building", "registered", "remote", "local", "answering", "acking", "badack",
            "closing", "waiting"}
InFlight == Holding \cup {"spawned"}
Steps == InFlight \cup {"none", "done", "lost"}

\* A peer: made, with the client's description, with both; then how it ended.  The
\* pipeline's close is followed through its phases and may stay half done.
Usable == {"new", "open", "linked", "failed"}
ClosePhases == {"closing", "stopped", "half"}
PcStates == Usable \cup ClosePhases \cup {"none", "closed", "gone"}

ProcTypeOK ==
  /\ phase \in [Workers -> Phases]
  /\ stop \in [Workers -> BOOLEAN]
  /\ want \in [Workers -> Nat]
  /\ batch \in [Workers -> SUBSET Id]
  /\ snapshot \in [Workers -> SUBSET Id]

TaskTypeOK ==
  /\ permits \in [Workers -> Nat]
  /\ host \in [Id -> Workers \cup {None}]
  /\ step \in [Id -> Steps]
  /\ answers \in [Id -> Nat]
  /\ acked \in SUBSET Id

PeerTypeOK ==
  /\ active \in [Workers -> [Sessions -> 0..MaxOffers]]
  /\ pc \in [Id -> PcStates]
  /\ events \in [Id -> SUBSET {"failed", "closed"}]
  /\ closeTasks \in SUBSET Id
  /\ listening \in SUBSET Id

TypeOK == StreamTypeOK /\ ProcTypeOK /\ TaskTypeOK /\ PeerTypeOK /\ faults \in 0..MaxFaults

Init ==
  /\ StreamInit
  /\ phase = [w \in Workers |-> "down"]
  /\ stop = [w \in Workers |-> FALSE]
  /\ want = [w \in Workers |-> 0]
  /\ batch = [w \in Workers |-> {}]
  /\ snapshot = [w \in Workers |-> {}]
  /\ permits = [w \in Workers |-> MaxConcurrent]
  /\ active = [w \in Workers |-> [s \in Sessions |-> 0]]
  /\ host = [m \in Id |-> None]
  /\ step = [m \in Id |-> "none"]
  /\ pc = [m \in Id |-> "none"]
  /\ events = [m \in Id |-> {}]
  /\ closeTasks = {}
  /\ listening = {}
  /\ answers = [m \in Id |-> 0]
  /\ acked = {}
  /\ faults = 0

Fault == /\ faults < MaxFaults
         /\ faults' = faults + 1

Running(w) == phase[w] \notin {"down"} \cup Ended
Hosted(w) == {m \in Id : host[m] = w}
Load(w) == Cardinality({s \in Sessions : active[w][s] # 0})

----------------------------------------------------------------------------
(* The gateway. *)

\* A client's offer reaches the stream once the router can find it.
PublishOffer(s, k) ==
  /\ groupMade /\ registry # {}
  /\ Cardinality({m \in Sent : stream[m].session = s}) < MaxOffersPerSession
  /\ XAdd(s, k)
  /\ UNCHANGED <<procVars, taskVars, peerVars, faults>>

----------------------------------------------------------------------------
(* startup() and the end of the process. *)

EnsureGroup(w) ==
  /\ phase[w] = "down"
  /\ phase' = [phase EXCEPT ![w] = "created"]
  /\ XGroupCreate
  /\ UNCHANGED <<stop, want, batch, snapshot, taskVars, peerVars, faults>>

EnsureGroupFails(w) ==
  /\ phase[w] = "down"
  /\ Fault
  /\ phase' = [phase EXCEPT ![w] = "create_failed"]
  /\ UNCHANGED <<streamVars, stop, want, batch, snapshot, taskVars, peerVars>>

\* The finally block registers the stream whether or not the group exists;
\* after a failure the exception leaves main().
Register(w) ==
  /\ phase[w] \in {"created", "create_failed"}
  /\ phase' = [phase EXCEPT ![w] = IF phase[w] = "created" THEN "loop" ELSE "crashed"]
  /\ SAdd
  /\ UNCHANGED <<stop, want, batch, snapshot, taskVars, peerVars, faults>>

\* The process is gone, and with it every task and peer it had.
ProcessEnds(w, how) ==
  /\ phase' = [phase EXCEPT ![w] = how]
  /\ want' = [want EXCEPT ![w] = 0]
  /\ batch' = [batch EXCEPT ![w] = {}]
  /\ snapshot' = [snapshot EXCEPT ![w] = {}]
  /\ active' = [active EXCEPT ![w] = [s \in Sessions |-> 0]]
  /\ step' = [m \in Id |-> IF m \in Hosted(w) /\ step[m] \in InFlight THEN "lost" ELSE step[m]]
  /\ pc' = [m \in Id |-> IF m \in Hosted(w) /\ pc[m] # "none" THEN "gone" ELSE pc[m]]
  /\ events' = [m \in Id |-> IF m \in Hosted(w) THEN {} ELSE events[m]]
  /\ closeTasks' = closeTasks \ Hosted(w)
  /\ listening' = listening \ Hosted(w)
  /\ UNCHANGED <<stop, permits, host, answers, acked>>

Crash(w) ==
  /\ Running(w)
  /\ Fault
  /\ ProcessEnds(w, "crashed")
  /\ UNCHANGED streamVars

Sigterm(w) ==
  /\ phase[w] = "loop" /\ ~stop[w]
  /\ stop' = [stop EXCEPT ![w] = TRUE]
  /\ UNCHANGED <<streamVars, phase, want, batch, snapshot, taskVars, peerVars, faults>>

----------------------------------------------------------------------------
(* The main loop. *)

\* get_batch_size()
BatchSizeZero(w) == IF Load(w) >= MaxConcurrent - Headroom THEN 0 ELSE FullBatch \* mutant
BatchSize(w) ==
  IF Load(w) >= MaxConcurrent - Headroom THEN 1
  ELSE IF Load(w) > MaxConcurrent \div 2 THEN MidBatch ELSE FullBatch

IssueRead(w) ==
  /\ phase[w] = "loop" /\ ~stop[w]
  /\ want[w] = 0
  /\ want' = [want EXCEPT ![w] = BatchSize(w)]
  /\ UNCHANGED <<streamVars, phase, stop, batch, snapshot, taskVars, peerVars, faults>>

\* Redis answers the read; the reply waits for main() to resume.
Deliver(w) ==
  /\ phase[w] = "loop" /\ want[w] > 0 /\ batch[w] = {}
  /\ XReadGroup(w, want[w])
  /\ batch' = [batch EXCEPT ![w] = NewEntries(want[w])]
  /\ UNCHANGED <<phase, stop, want, snapshot, taskVars, peerVars, faults>>

\* block=2000 passes with nothing new: the loop asks again, with a new size.
ReadTimesOut(w) ==
  /\ phase[w] = "loop" /\ ~stop[w]
  /\ want[w] > 0 /\ batch[w] = {} /\ lastId = Len(stream)
  /\ want' = [want EXCEPT ![w] = 0]
  /\ UNCHANGED <<streamVars, phase, stop, batch, snapshot, taskVars, peerVars, faults>>

\* The connection breaks: what Redis had delivered is lost with the reply.
ReadFails(w) ==
  /\ phase[w] = "loop" /\ ~stop[w]
  /\ want[w] > 0
  /\ Fault
  /\ want' = [want EXCEPT ![w] = 0]
  /\ batch' = [batch EXCEPT ![w] = {}]
  /\ UNCHANGED <<streamVars, phase, stop, snapshot, taskVars, peerVars>>

\* Nothing of the reply is left for the next iteration: "messages" is bound anew.
SameReply(w) == batch[w] \* mutant: the loop goes round with the old messages
ReplyLeft(w) == {}

\* One task for each entry of the reply.
Spawn(w) ==
  /\ phase[w] = "loop" /\ ~stop[w] /\ batch[w] # {}
  /\ host' = [m \in Id |-> IF m \in batch[w] THEN w ELSE host[m]]
  /\ step' = [m \in Id |-> IF m \in batch[w] THEN "spawned" ELSE step[m]]
  /\ batch' = [batch EXCEPT ![w] = ReplyLeft(w)]
  /\ want' = [want EXCEPT ![w] = 0]
  /\ UNCHANGED <<streamVars, phase, stop, snapshot, permits, answers, acked, peerVars, faults>>

----------------------------------------------------------------------------
(* process_message. *)

SetStep(m, to) == step' = [step EXCEPT ![m] = to]

\* The end of "async with semaphore".
FinishHolding(m) == SetStep(m, "done") /\ UNCHANGED permits \* mutant: no release
Finish(m) ==
  /\ SetStep(m, "done")
  /\ permits' = [permits EXCEPT ![host[m]] = @ + 1]

\* pc.close() by a task that nobody cancels: the first call emits
\* connectionstatechange "closed", a later one does nothing.
ClosePc(m) ==
  /\ pc' = [pc EXCEPT ![m] = IF @ \in Usable THEN "closed" ELSE @]
  /\ events' = [events EXCEPT ![m] = IF pc[m] \in Usable THEN @ \cup {"closed"} ELSE @]

SlotFree(m) == permits[host[m]] > 0

Acquire(m) ==
  /\ step[m] = "spawned" /\ SlotFree(m)
  /\ permits' = [permits EXCEPT ![host[m]] = @ - 1]
  /\ SetStep(m, "building")
  /\ UNCHANGED <<streamVars, procVars, host, answers, acked, peerVars, faults>>

\* DepProvider.build or create_peer raises: peer_session is unbound, so the
\* except clause raises too, and nothing is acknowledged or closed.
BuildFails(m) ==
  /\ step[m] = "building"
  /\ Fault
  /\ Finish(m)
  /\ UNCHANGED <<streamVars, procVars, host, answers, acked, peerVars>>

\* active_sessions[session_id] = peer_session: replaces an older peer.
EnterSession(m) == active' = [active EXCEPT ![host[m]][stream[m].session] = m]

CreatePeer(m) ==
  /\ step[m] = "building"
  /\ pc' = [pc EXCEPT ![m] = "new"]
  /\ EnterSession(m)
  /\ listening' = listening \cup {m}
  /\ SetStep(m, "registered")
  /\ UNCHANGED <<streamVars, procVars, permits, host, answers, acked, events, closeTasks, faults>>

\* setRemoteDescription sets off on_track, and with it the audio pipeline.
SetRemote(m) ==
  /\ step[m] = "registered" /\ stream[m].kind # "malformed"
  /\ pc' = [pc EXCEPT ![m] = "open"]
  /\ SetStep(m, "remote")
  /\ UNCHANGED <<streamVars, procVars, permits, host, answers, acked,
                 active, events, closeTasks, listening, faults>>

\* createAnswer raises once the peer is closed.
CreateAnswer(m) ==
  /\ step[m] = "remote" /\ pc[m] = "open"
  /\ SetStep(m, "local")
  /\ UNCHANGED <<streamVars, procVars, permits, host, answers, acked, peerVars, faults>>

\* setLocalDescription waits for the candidates; the pipeline may close the peer
\* meanwhile, which it notices or not.
SetLocal(m) ==
  /\ step[m] = "local" /\ stream[m].kind = "ok"
  /\ pc' = [pc EXCEPT ![m] = IF @ = "open" THEN "linked" ELSE @]
  /\ SetStep(m, "answering")
  /\ UNCHANGED <<streamVars, procVars, permits, host, answers, acked,
                 active, events, closeTasks, listening, faults>>

\* "except KeyError".
OfferMalformed(m) ==
  /\ step[m] = "registered" /\ stream[m].kind = "malformed"
  /\ SetStep(m, "badack")
  /\ UNCHANGED <<streamVars, procVars, permits, host, answers, acked, peerVars, faults>>

\* One of the three raises: the offer is at fault, the peer was closed by its
\* pipeline, or anything else.
AckAnyError == "badack" \* mutant: what cannot be applied is acknowledged
AfterError == "closing"

ClosedMeanwhile(m) == step[m] \in {"remote", "local"} /\ pc[m] # "open"

NegotiationFails(m) ==
  /\ step[m] \in {"registered", "remote", "local"} /\ stream[m].kind # "malformed"
  /\ \/ (stream[m].kind = "bad" \/ ClosedMeanwhile(m)) /\ UNCHANGED faults
     \/ Fault
  /\ SetStep(m, AfterError)
  /\ UNCHANGED <<streamVars, procVars, permits, host, answers, acked, peerVars>>

\* The XADD / EXPIRE transaction on the answer stream.  redis_client sends a call
\* that timed out once more (redis_db.py:18), and Redis may execute it both times.
AddAnswers(m, n) == answers' = [answers EXCEPT ![m] = @ + n]

PublishAnswer(m) ==
  /\ step[m] = "answering"
  /\ \/ AddAnswers(m, 1) /\ UNCHANGED faults
     \/ AddAnswers(m, 2) /\ Fault
  /\ SetStep(m, "acking")
  /\ UNCHANGED <<streamVars, procVars, permits, host, acked, peerVars>>

\* The call fails in the end, having been executed or not by then.
PublishFails(m) ==
  /\ step[m] = "answering"
  /\ Fault
  /\ \E n \in 0..2 : AddAnswers(m, n)
  /\ SetStep(m, "closing")
  /\ UNCHANGED <<streamVars, procVars, permits, host, acked, peerVars>>

\* redis_client.xack
Acknowledge(m) == XAck(m) /\ acked' = acked \cup {m}

Ack(m) ==
  /\ step[m] = "acking"
  /\ Acknowledge(m)
  /\ Finish(m)
  /\ UNCHANGED <<procVars, host, answers, peerVars, faults>>

\* XACK raises after the answer is out: "except Exception" closes the peer.
AckFails(m) ==
  /\ step[m] = "acking"
  /\ Fault
  /\ Acknowledge(m) \/ UNCHANGED <<streamVars, acked>>
  /\ SetStep(m, "closing")
  /\ UNCHANGED <<procVars, permits, host, answers, peerVars>>

\* The KeyError clause acknowledges, then closes.
AckMalformed(m) ==
  /\ step[m] = "badack"
  /\ Acknowledge(m)
  /\ SetStep(m, "closing")
  /\ UNCHANGED <<procVars, permits, host, answers, peerVars, faults>>

\* XACK raises in the KeyError clause: the task ends, the peer stays open.
AckMalformedFails(m) ==
  /\ step[m] = "badack"
  /\ Fault
  /\ Acknowledge(m) \/ UNCHANGED <<streamVars, acked>>
  /\ Finish(m)
  /\ UNCHANGED <<procVars, host, answers, peerVars>>

\* await peer_session.pc.close().  While the pipeline closes the peer, or after its
\* close was cut, the call returns at once or waits, as aiortc's version has it.
CloseOnError(m) ==
  /\ step[m] = "closing"
  /\ \/ pc[m] \notin ClosePhases /\ ClosePc(m) /\ Finish(m)
     \/ /\ pc[m] \in ClosePhases
        /\ Finish(m) \/ (SetStep(m, "waiting") /\ UNCHANGED permits)
        /\ UNCHANGED <<pc, events>>
  /\ UNCHANGED <<streamVars, procVars, host, answers, acked, active, closeTasks, listening, faults>>

\* The close that was waited for is complete.
WaitEnds(m) ==
  /\ step[m] = "waiting" /\ pc[m] = "closed"
  /\ Finish(m)
  /\ UNCHANGED <<streamVars, procVars, host, answers, acked, peerVars, faults>>

----------------------------------------------------------------------------
(* The peer: events of aiortc and of the audio pipeline. *)

\* ICE or DTLS fails; possible once both descriptions are set.
ConnectionFails(m) ==
  /\ pc[m] = "linked"
  /\ Fault
  /\ pc' = [pc EXCEPT ![m] = "failed"]
  /\ events' = [events EXCEPT ![m] = @ \cup {"failed"}]
  /\ UNCHANGED <<streamVars, procVars, taskVars, active, closeTasks, listening>>

\* audio_pipeline ends (input over, EndOfStream or error) and closes the peer.
PipelineCloses(m) ==
  /\ pc[m] \in Usable \ {"new"}
  /\ pc' = [pc EXCEPT ![m] = "closing"]
  /\ UNCHANGED <<streamVars, procVars, taskVars, active, events, closeTasks, listening, faults>>

\* The transport stops, which the callbacks are told of before close() returns.
TransportStops(m) ==
  /\ pc[m] = "closing"
  /\ pc' = [pc EXCEPT ![m] = "stopped"]
  /\ events' = [events EXCEPT ![m] = @ \cup {"closed"}]
  /\ UNCHANGED <<streamVars, procVars, taskVars, active, closeTasks, listening, faults>>

PipelineClosed(m) ==
  /\ pc[m] = "stopped"
  /\ pc' = [pc EXCEPT ![m] = "closed"]
  /\ UNCHANGED <<streamVars, procVars, taskVars, active, events, closeTasks, listening, faults>>

\* active_sessions.pop(session_id): whatever peer the entry holds.
KeepSession(m) == UNCHANGED active \* mutant: no pop
DropSession(m) == active' = [active EXCEPT ![host[m]][stream[m].session] = 0]

\* A close() of a peer that is closed, or being closed, does nothing; nobody
\* waits for the task, which may wait for the other close.
ScheduleClose(m) == closeTasks' = IF pc'[m] \in Usable THEN closeTasks \cup {m} ELSE closeTasks

\* on_conn_state and on_terminated.  _cancel_tasks cuts the close the pipeline is
\* in, if there is anything left of it.
CutClose(m) == pc' = [pc EXCEPT ![m] = IF @ \in {"closing", "stopped"} THEN "half" ELSE @]

OnTerminated(m, e) ==
  /\ e \in events[m]
  /\ events' = [events EXCEPT ![m] = @ \ {e}]
  /\ CutClose(m) \/ UNCHANGED pc
  /\ ScheduleClose(m)
  /\ DropSession(m)
  /\ UNCHANGED <<streamVars, procVars, taskVars, listening, faults>>

CloseTask(m) ==
  /\ m \in closeTasks
  /\ ClosePc(m)
  /\ closeTasks' = closeTasks \ {m}
  /\ UNCHANGED <<streamVars, procVars, taskVars, active, listening, faults>>

----------------------------------------------------------------------------
(* reclaim_abandoned. *)

\* XPENDING: the loop goes on with the list this call returned.
ReclaimScan(w) ==
  /\ phase[w] = "loop" /\ snapshot[w] = {} /\ idle # {}
  /\ snapshot' = [snapshot EXCEPT ![w] = idle]
  /\ UNCHANGED <<streamVars, phase, stop, want, batch, taskVars, peerVars, faults>>

\* A claimed entry is assigned to this worker; no task is created for it.
ReclaimNext(w) ==
  /\ phase[w] = "loop"
  /\ \E m \in snapshot[w] :
       /\ \A n \in snapshot[w] : m <= n
       /\ XClaim(w, m)
       /\ snapshot' = [snapshot EXCEPT ![w] = @ \ {m}]
  /\ UNCHANGED <<phase, stop, want, batch, taskVars, peerVars, faults>>

ReclaimFails(w) ==
  /\ phase[w] = "loop" /\ snapshot[w] # {}
  /\ Fault
  /\ snapshot' = [snapshot EXCEPT ![w] = {}]
  /\ UNCHANGED <<streamVars, phase, stop, want, batch, taskVars, peerVars>>

PassTime(m) ==
  /\ BecomeIdle(m)
  /\ UNCHANGED <<procVars, taskVars, peerVars, faults>>

----------------------------------------------------------------------------
(* SIGTERM: leave the loop, wait for the handlers, shutdown(). *)

\* Whatever read_task holds is dropped; the reclaim task is cancelled.
LeaveLoop(w) ==
  /\ phase[w] = "loop" /\ stop[w]
  /\ phase' = [phase EXCEPT ![w] = "drain"]
  /\ want' = [want EXCEPT ![w] = 0]
  /\ batch' = [batch EXCEPT ![w] = {}]
  /\ snapshot' = [snapshot EXCEPT ![w] = {}]
  /\ UNCHANGED <<streamVars, stop, taskVars, peerVars, faults>>

\* asyncio.gather(*running_tasks) returns.
SessionsEnded(w) == Load(w) = 0 /\ \A m \in Hosted(w) : step[m] \notin InFlight \* mutant: sessions are waited for
HandlersEnded(w) == \A m \in Hosted(w) : step[m] \notin InFlight

Drained(w) ==
  /\ phase[w] = "drain" /\ HandlersEnded(w)
  /\ phase' = [phase EXCEPT ![w] = "shutdown"]
  /\ UNCHANGED <<streamVars, stop, want, batch, snapshot, taskVars, peerVars, faults>>

\* PeerSession has no cancel_all_tasks: the first active session raises
\* AttributeError and the process ends here.
ShutdownAborts(w) ==
  /\ phase[w] = "shutdown" /\ Load(w) > 0
  /\ ProcessEnds(w, "aborted")
  /\ UNCHANGED <<streamVars, faults>>

LeaveGroup(w) ==
  /\ phase[w] = "shutdown" /\ Load(w) = 0
  /\ phase' = [phase EXCEPT ![w] = "leaving"]
  /\ \/ XGroupDelConsumer(w) /\ UNCHANGED faults
     \/ Fault /\ UNCHANGED streamVars
  /\ UNCHANGED <<stop, want, batch, snapshot, taskVars, peerVars>>

\* The registry set the Lua script removes the stream from (KEYS[2]); it is not
\* the one ensure_group adds it to.
DeregisterKey == "streams"

\* The Lua script: XINFO CONSUMERS, and SREM when nobody is left.
Deregister(w) ==
  /\ phase[w] = "leaving"
  /\ registry' = IF consumers = {} THEN registry \ {DeregisterKey} ELSE registry
  /\ ProcessEnds(w, "exited")
  /\ UNCHANGED <<stream, groupMade, lastId, pel, idle, consumers, faults>>

DeregisterFails(w) ==
  /\ phase[w] = "leaving"
  /\ Fault
  /\ ProcessEnds(w, "aborted")
  /\ UNCHANGED streamVars

----------------------------------------------------------------------------
StartStep(w) == EnsureGroup(w) \/ EnsureGroupFails(w) \/ Register(w)
LoopStep(w) == \/ IssueRead(w) \/ Deliver(w) \/ ReadTimesOut(w) \/ ReadFails(w) \/ Spawn(w)
               \/ ReclaimScan(w) \/ ReclaimNext(w) \/ ReclaimFails(w)
StopStep(w) == \/ Sigterm(w) \/ Crash(w) \/ LeaveLoop(w) \/ Drained(w) \/ ShutdownAborts(w)
               \/ LeaveGroup(w) \/ Deregister(w) \/ DeregisterFails(w)
HandlerStep(m) == \/ Acquire(m) \/ BuildFails(m) \/ CreatePeer(m)
                  \/ SetRemote(m) \/ CreateAnswer(m) \/ SetLocal(m)
                  \/ OfferMalformed(m) \/ NegotiationFails(m)
                  \/ PublishAnswer(m) \/ PublishFails(m) \/ Ack(m) \/ AckFails(m)
                  \/ AckMalformed(m) \/ AckMalformedFails(m)
                  \/ CloseOnError(m) \/ WaitEnds(m)
CloseStep(m) == TransportStops(m) \/ PipelineClosed(m)
PeerStep(m) == \/ ConnectionFails(m) \/ PipelineCloses(m) \/ CloseStep(m) \/ CloseTask(m)
               \/ \E e \in {"failed", "closed"} : OnTerminated(m, e)

Next ==
  \/ \E s \in Sessions, k \in OfferKinds : PublishOffer(s, k)
  \/ \E w \in Workers : StartStep(w) \/ LoopStep(w) \/ StopStep(w)
  \/ \E m \in Id : HandlerStep(m) \/ PeerStep(m) \/ PassTime(m)

Spec == Init /\ [][Next]_vars

(***************************************************************************)
(* Fairness: the event loop of a live worker runs every task that is ready *)
(* and every awaited call returns, but for a close of a peer that another  *)
(* task has left half closed.  Nothing obliges clients, peers, the network *)
(* or an operator to act, nor a worker to be started.                      *)
(***************************************************************************)
\* What main() does next, what the reclaim loop does next, and what is scheduled
\* for a peer: each of these uses up what enables it.
MainStep(w) == \/ Register(w) \/ IssueRead(w) \/ Deliver(w) \/ Spawn(w)
               \/ LeaveLoop(w) \/ Drained(w) \/ ShutdownAborts(w) \/ LeaveGroup(w)
               \/ Deregister(w) \/ DeregisterFails(w)
ReclaimStep(w) == ReclaimScan(w) \/ ReclaimNext(w)
Scheduled(m) == \/ CloseStep(m) \/ CloseTask(m)
                \/ \E e \in {"failed", "closed"} : OnTerminated(m, e)

Fairness ==
  /\ \A m \in Id : WF_vars(HandlerStep(m)) /\ WF_vars(Scheduled(m)) /\ WF_vars(PassTime(m))
  /\ \A w \in Workers : WF_vars(MainStep(w)) /\ WF_vars(ReclaimStep(w))

FairSpec == Spec /\ Fairness

----------------------------------------------------------------------------
(* Safety. *)

\* worker.py:243 "Ack only on success": an acknowledged offer was answered or
\* can never be, whatever order failures, reclaims and shutdowns come in.
AckMeansVerdict ==
  \A m \in acked : answers[m] # 0 \/ stream[m].kind = "malformed"

\* An offer that has an answer gets no other: although reads fail, entries change
\* consumer and several workers share the group, its answers come from one call of
\* one handler (worker.py:230-240), two if that call was sent again.
AnsweredByOneCall == [][\A m \in Id : answers'[m] # answers[m] => answers[m] = 0]_vars

\* No interleaving of the reclaim loop (which works from an old XPENDING
\* list) with an acknowledgement puts the offer back on the pending list.
AckedNeverPending == acked \cap Pending = {}

\* worker.py:268 "message stays pending for reclaim": through lost replies, claims
\* from old lists, failing calls and crashes a delivered offer is acknowledged or on
\* some worker's pending list, until a worker leaves the group on SIGTERM (:304).
HasLeft(w) == stop[w] /\ phase[w] \in {"leaving"} \cup Ended /\ w \notin consumers
UnsettledStaysPending ==
  \A m \in 1..lastId : m \in acked \cup Pending \/ \E w \in Workers : HasLeft(w)

\* shutdown() starts after every handler task of the worker has ended and no
\* read reply is left: nothing uses Redis behind it.
ShutdownAfterHandlers ==
  \A w \in Workers : phase[w] \in {"shutdown", "leaving"} \cup Ended =>
    batch[w] = {} /\ \A m \in Hosted(w) : step[m] \notin InFlight

\* Each way out of process_message gives its semaphore slot back.
PermitsConserved ==
  \A w \in Workers : Running(w) =>
    permits[w] + Cardinality({m \in Hosted(w) : step[m] \in Holding}) = MaxConcurrent

\* Once the transport of a peer has stopped or failed and its events are handled,
\* active_sessions does not hold it: sessions do not inflate the load.
NoZombieSession ==
  \A w \in Workers, s \in Sessions : active[w][s] # 0 =>
    LET m == active[w][s] IN pc[m] \in {"new", "open", "linked", "closing"} \/ events[m] # {}

----------------------------------------------------------------------------
(* The inductive invariant behind the delivery properties. *)

\* Only delivered offers are in a reply or handled, an offer is in one reply
\* only, and never both in a reply and handled.
DeliveredOnce ==
  /\ \A m \in Id : step[m] # "none" => m <= lastId /\ host[m] \in Workers
  /\ \A w \in Workers : \A m \in batch[w] : m <= lastId /\ step[m] = "none"
  /\ \A v, w \in Workers : v # w => batch[v] \cap batch[w] = {}

\* What the place of the handler says about the answer.
AnswerFollowsStep ==
  \A m \in Id :
    /\ step[m] \in {"none", "spawned", "building", "registered", "remote", "local",
                   "answering", "badack"}
         => answers[m] = 0
    /\ step[m] = "acking" => answers[m] # 0
    /\ step[m] = "badack" => stream[m].kind = "malformed"
    /\ answers[m] <= 2

\* Acknowledged offers have their verdict and are off the pending list, and
\* no entry is pending before it is delivered.
AckedSettled ==
  /\ \A m \in acked :
       /\ m <= lastId /\ pel[m] = None
       /\ answers[m] # 0 \/ stream[m].kind = "malformed"
  /\ \A m \in Id : pel[m] # None => m <= lastId

DeliveryInv == DeliveredOnce /\ AnswerFollowsStep /\ AckedSettled

----------------------------------------------------------------------------
(* The workers implement OfferDelivery. *)

OfferStatus(m) ==
  CASE m \notin Sent -> "unsent"
    [] m \in Sent /\ lastId < m -> "queued"
    [] m \in Sent /\ m <= lastId /\ m \in acked -> "acked"
    [] m \in Sent /\ m <= lastId /\ m \notin acked /\ m \in Pending -> "pending"
    [] m \in Sent /\ m <= lastId /\ m \notin acked /\ m \notin Pending -> "dropped"

Delivery == INSTANCE OfferDelivery WITH
  Offers <- Id,
  status <- [m \in Id |-> OfferStatus(m)],
  rejectable <- {m \in Sent : stream[m].kind = "malformed"},
  answers <- answers

\* Every behaviour of the workers is one of OfferDelivery: at-most-once
\* delivery, answers from one call and no acknowledgement without a verdict,
\* through claims, lost replies, crashes and consumers leaving the group.
ImplementsDelivery == Delivery!Spec

----------------------------------------------------------------------------
(* Liveness, under FairSpec. *)

\* SIGTERM ends the worker (worker.py:414-425), whatever fails and whichever of
\* handler, pipeline and callback closes a peer first, unless a handler waits for the
\* close of a peer that the peer's own callback cut: that wait has no end.
Stuck(m) == step[m] = "waiting" /\ pc[m] = "half"
SigtermEndsWorker ==
  \A w \in Workers : stop[w] ~> phase[w] \in Ended \/ \E m \in Hosted(w) : Stuck(m)

\* While a worker stays in its loop the offers in the stream are read.
OfferIsRead ==
  \A w \in Workers :
    (phase[w] = "loop" /\ lastId < Len(stream))
      ~> (lastId = Len(stream) \/ phase[w] # "loop" \/ stop[w])

----------------------------------------------------------------------------
(* What the comments say and the code does not do. *)

\* worker.py:86 "Reclaim messages pending over 30s from dead workers" and
\* :268 "message stays pending for reclaim": a pending offer is retried,
\* so that it is answered or leaves the pending list.
PendingOfferIsRetried ==
  \A m \in Id : m \in Pending ~> (m \notin Pending \/ step[m] \in InFlight \/ \A w \in Workers : phase[w] # "loop")
=============================================================================
