------------------------ MODULE PeerLifecycleProofs ------------------------
(***************************************************************************)
(* The peers of a worker, for any calls, any lifetime of the ICE servers   *)
(* and any number of faults: the types, the age of the servers a peer is   *)
(* built with, and why a trace may stay open.                              *)
(***************************************************************************)
EXTENDS PeerLifecycle, TLAPS

USE DEF iceVars, peerVars, vars, Dead, Over, Tasks, Closers

-----------------------------------------------------------------------------
(* The ICE servers: a part of the state that the peers only read. *)

\* What a step of the whole does to the cache.
IceNext == \/ Tick
           \/ \E p \in Calls : AskCloudflare(p) \/ ConfigBuilt(p)
           \/ Fault /\ UNCHANGED <<now, servers, expiresAt, fetch, lookedAt, config>>
           \/ UNCHANGED iceVars

LEMMA StepOnIce == [Next]_vars => IceNext
PROOF
<1> SUFFICES ASSUME [Next]_vars PROVE IceNext
  OBVIOUS
<1>1. CASE IceStep
  BY <1>1 DEF IceStep, IceNext
<1>2. CASE UNCHANGED vars
  BY <1>2 DEF IceNext
<1>3. ASSUME NEW p \in Peers,
             Runs(p) \/ OfferFails(p) \/ Connects(p) \/ ConnectionDies(p)
               \/ TraceFails(p) \/ WorkflowEnds(p) \/ CancelSwallowed(p)
      PROVE  IceNext
  <2>1. CASE CreatePeer(p)
    BY <2>1, PeerAssumption DEF CreatePeer, IceNext
  <2>2. CASE OfferFails(p)
    BY <2>2 DEF OfferFails, IceNext
  <2>3. CASE TraceFails(p)
    BY <2>3 DEF TraceFails, IceNext
  <2>4. CASE Runs(p) /\ ~CreatePeer(p)
    BY <2>4 DEF Runs, IceNext, ApplyOffer, AnswerOffer, OnTrack, OnConnState, CloseTerminated,
                TransportStops, CloseEnds, NeverRuns, StartTrace, CloseCut, WaitEnds
  <2>5. CASE Connects(p) \/ ConnectionDies(p) \/ WorkflowEnds(p) \/ CancelSwallowed(p)
    BY <2>5 DEF Connects, ConnectionDies, WorkflowEnds, CancelSwallowed, IceNext
  <2> QED BY <1>3, <2>1, <2>2, <2>3, <2>4, <2>5
<1> QED BY <1>1, <1>2, <1>3 DEF Next

LEMMA IceTypes == Init => IceTypeOK
PROOF BY IceAssumption DEF Init, IceInit, IceTypeOK, Issued

LEMMA IceTypesKept == IceTypeOK /\ IceNext => IceTypeOK'
PROOF
<1> SUFFICES ASSUME IceTypeOK, IceNext PROVE IceTypeOK'
  OBVIOUS
<1> USE IceAssumption DEF IceTypeOK, Issued
<1>1. CASE Tick
  BY <1>1 DEF Tick
<1>2. ASSUME NEW p \in Calls, AskCloudflare(p) PROVE IceTypeOK'
  BY <1>2 DEF AskCloudflare
<1>3. ASSUME NEW p \in Calls, ConfigBuilt(p) PROVE IceTypeOK'
  <2>1. CASE CacheHit(p)
    BY <2>1 DEF CacheHit, Built
  <2>2. CASE Answered(p)
    BY <2>2 DEF Answered, Built, SetLife
  <2>3. CASE AskFails(p)
    BY <2>3 DEF AskFails, Built, Fault
  <2> QED BY <1>3, <2>1, <2>2, <2>3 DEF ConfigBuilt
<1>4. CASE Fault /\ UNCHANGED <<now, servers, expiresAt, fetch, lookedAt, config>>
  BY <1>4 DEF Fault
<1>5. CASE UNCHANGED iceVars
  BY <1>5
<1> QED BY <1>1, <1>2, <1>3, <1>4, <1>5 DEF IceNext

\* The cache never outlives its list by the clock, and no request is older than the
\* time-out of the HTTP client.
CacheIsYoung ==
  /\ servers \in Issued => servers <= now /\ expiresAt <= servers + IceCacheTtl
  /\ \A p \in Calls : fetch[p] = "asked" => lookedAt[p] <= now /\ now <= lookedAt[p] + FetchTime

LEMMA CacheStartsYoung == Init => CacheIsYoung
PROOF BY IceAssumption DEF Init, IceInit, CacheIsYoung, Issued, NoServers

LEMMA CacheStaysYoung == IceTypeOK /\ CacheIsYoung /\ IceNext => CacheIsYoung'
PROOF
<1> SUFFICES ASSUME IceTypeOK, CacheIsYoung, IceNext PROVE CacheIsYoung'
  OBVIOUS
<1> USE IceAssumption DEF IceTypeOK, Issued, NoServers, CacheIsYoung
<1>1. CASE Tick
  BY <1>1 DEF Tick
<1>2. ASSUME NEW p \in Calls, AskCloudflare(p) PROVE CacheIsYoung'
  BY <1>2 DEF AskCloudflare
<1>3. ASSUME NEW p \in Calls, ConfigBuilt(p) PROVE CacheIsYoung'
  <2>1. CASE CacheHit(p)
    BY <2>1 DEF CacheHit, Built
  <2>2. CASE Answered(p)
    BY <2>2 DEF Answered, Built, SetLife
  <2>3. CASE AskFails(p)
    BY <2>3 DEF AskFails, Built, Fault
  <2> QED BY <1>3, <2>1, <2>2, <2>3 DEF ConfigBuilt
<1>4. CASE Fault /\ UNCHANGED <<now, servers, expiresAt, fetch, lookedAt, config>>
  BY <1>4
<1>5. CASE UNCHANGED iceVars
  BY <1>5
<1> QED BY <1>1, <1>2, <1>3, <1>4, <1>5 DEF IceNext

LEMMA CacheHolds == Spec => [](IceTypeOK /\ CacheIsYoung)
PROOF BY IceTypes, IceTypesKept, CacheStartsYoung, CacheStaysYoung, StepOnIce, PTL DEF Spec

\* However the requests of concurrent offers overlap, a peer built while Cloudflare answers
\* gets servers that were issued less than ICE_CACHE_TTL ago (peer/config.py:28-53).
THEOREM CachedServersAreYoungAlways == Spec => CachedServersAreYoung
PROOF
<1>1. IceTypeOK /\ CacheIsYoung /\ [Next]_vars =>
        [\A p \in Calls :
           fetch[p] # "built" /\ fetch'[p] = "built" /\ config'[p] \in Issued /\ faults' = faults
             => now - config'[p] < IceCacheTtl]_iceVars
  <2> SUFFICES ASSUME IceTypeOK, CacheIsYoung, [Next]_vars, NEW q \in Calls,
                      fetch[q] # "built", fetch'[q] = "built", config'[q] \in Issued, faults' = faults
               PROVE  now - config'[q] < IceCacheTtl
    OBVIOUS
  <2> USE IceAssumption DEF IceTypeOK, Issued, NoServers
  <2>1. PICK p \in Calls : ConfigBuilt(p)
    <3>1. \A p \in Calls : ~AskCloudflare(p)
      BY DEF AskCloudflare
    <3>2. ~Tick
      BY DEF Tick
    <3>3. fetch' # fetch
      OBVIOUS
    <3>4. IceNext
      BY StepOnIce
    <3>5. \E p \in Calls : AskCloudflare(p) \/ ConfigBuilt(p)
      BY <3>2, <3>3, <3>4 DEF IceNext
    <3> QED BY <3>1, <3>5
  <2>2. p = q
    BY <2>1 DEF ConfigBuilt, CacheHit, Answered, AskFails, Built
  <2>3. CASE CacheHit(p)
    BY <2>2, <2>3 DEF CacheHit, Built, Hit, CacheIsYoung
  <2>4. CASE Answered(p)
    BY <2>2, <2>4 DEF Answered, Built, CacheIsYoung
  <2>5. CASE AskFails(p)
    BY <2>5 DEF AskFails, Fault
  <2> QED BY <2>1, <2>3, <2>4, <2>5 DEF ConfigBuilt
<1> QED BY <1>1, CacheHolds, PTL DEF CachedServersAreYoung, Spec

-----------------------------------------------------------------------------
(* The peers. *)

LEMMA PeerTypes == Init => TypeOK
PROOF BY IceTypes DEF Init, TypeOK

\* What BeginClose does to the two variables it changes.
LEMMA BeginCloseTypes ==
  ASSUME TypeOK, NEW p \in Peers, NEW who \in Closers, BeginClose(p, who)
  PROVE  /\ pc' \in [Peers -> {"none", "open", "closing", "closed", "half"}]
         /\ closer' \in [Peers -> Closers]
PROOF BY DEF TypeOK, BeginClose

LEMMA PeerTypesKept == TypeOK /\ [Next]_vars => TypeOK'
PROOF
<1> SUFFICES ASSUME TypeOK, [Next]_vars PROVE TypeOK'
  OBVIOUS
<1> USE DEF TypeOK
<1>1. IceTypeOK'
  BY IceTypesKept, StepOnIce
<1>2. CASE IceStep \/ UNCHANGED vars
  BY <1>1, <1>2 DEF IceStep
<1>3. ASSUME NEW p \in Peers, Runs(p) PROVE TypeOK'
  <2>1. CASE CreatePeer(p)
    BY <1>1, <2>1 DEF CreatePeer
  <2>2. CASE ApplyOffer(p) \/ AnswerOffer(p) \/ OnTrack(p)
    BY <1>1, <2>2 DEF ApplyOffer, AnswerOffer, OnTrack, SetTask
  <2>3. CASE OnConnState(p)
    BY <1>1, <2>3 DEF OnConnState, CancelTasks, Terminated
  <2>4. CASE CloseTerminated(p)
    BY <1>1, <2>4, BeginCloseTypes DEF CloseTerminated, CloseForGood
  <2>5. CASE TransportStops(p)
    BY <1>1, <2>5 DEF TransportStops, Notify
  <2>6. CASE CloseEnds(p)
    BY <1>1, <2>6 DEF CloseEnds, EndTrace, SetTask
  <2>7. CASE NeverRuns(p) \/ StartTrace(p)
    BY <1>1, <2>7 DEF NeverRuns, StartTrace, SetTask
  <2>8. CASE CloseCut(p) \/ WaitEnds(p)
    BY <1>1, <2>8 DEF CloseCut, WaitEnds, EndTrace, SetTask
  <2> QED BY <1>3, <2>1, <2>2, <2>3, <2>4, <2>5, <2>6, <2>7, <2>8 DEF Runs
<1>4. ASSUME NEW p \in Peers, OfferFails(p) PROVE TypeOK'
  BY <1>1, <1>4, BeginCloseTypes DEF OfferFails
<1>5. ASSUME NEW p \in Peers, Connects(p) \/ ConnectionDies(p) PROVE TypeOK'
  BY <1>1, <1>5 DEF Connects, ConnectionDies, Notify
<1>6. ASSUME NEW p \in Peers, TraceFails(p) \/ CancelSwallowed(p) PROVE TypeOK'
  BY <1>1, <1>6 DEF TraceFails, CancelSwallowed, SetTask
<1>7. ASSUME NEW p \in Peers, WorkflowEnds(p) PROVE TypeOK'
  <2>1. /\ task' \in [Peers -> Tasks]
        /\ trace' \in [Peers -> {"none", "open", "ended"}]
    BY <1>7 DEF WorkflowEnds, CloseInFinally, EndTrace, SetTask
  <2>2. BeginClose(p, "pipeline")
    BY <1>7 DEF WorkflowEnds, CloseInFinally
  <2> QED BY <1>1, <1>7, <2>1, <2>2, BeginCloseTypes DEF WorkflowEnds
<1> QED BY <1>2, <1>3, <1>4, <1>5, <1>6, <1>7 DEF Next

\* The variables have their types (PeerSession, RTCPeerConnection, the task of the pipeline).
THEOREM PeersTyped == Spec => []TypeOK
PROOF BY PeerTypes, PeerTypesKept, PTL DEF Spec

\* A peer that was not built is in no offer, set or task; the track comes with the offer, and
\* the close of a pipeline after it; only the tasks of a dead, removed session are cancelled;
\* a trace is opened by the pipeline that runs.
TraceInv(p) ==
  /\ fetch[p] # "built" => offer[p] = "none" /\ pc[p] = "none" /\ p \notin registered
  /\ offer[p] \in {"none", "applying"} => task[p] = "none" /\ closer[p] # "pipeline"
  /\ p \in cancel => conn[p] \in Dead /\ p \notin registered /\ task[p] # "none"
  /\ task[p] \in {"none", "tracked", "created"} => trace[p] = "none"
  /\ task[p] \in Over /\ trace[p] = "open" => conn[p] \in Dead /\ p \notin registered

LEMMA BuiltForGood == TypeOK /\ [Next]_vars => \A p \in Calls : fetch[p] = "built" => fetch'[p] = "built"
PROOF
<1> SUFFICES ASSUME TypeOK, [Next]_vars, NEW p \in Calls, fetch[p] = "built" PROVE fetch'[p] = "built"
  OBVIOUS
<1>1. IceNext
  BY StepOnIce
<1>2. CASE Tick \/ UNCHANGED fetch
  BY <1>2 DEF Tick
<1>3. ASSUME NEW c \in Calls, AskCloudflare(c) \/ ConfigBuilt(c) PROVE fetch'[p] = "built"
  BY <1>3 DEF TypeOK, IceTypeOK, AskCloudflare, ConfigBuilt, CacheHit, Answered, AskFails, Built
<1> QED BY <1>1, <1>2, <1>3 DEF IceNext

LEMMA TraceInvKept ==
  ASSUME TypeOK, [Next]_vars, NEW q \in Peers, TraceInv(q)
  PROVE  TraceInv(q)'
PROOF
<1> USE DEF TypeOK, TraceInv
<1>1. fetch'[q] # "built" => fetch[q] # "built"
  BY BuiltForGood, PeerAssumption
<1>2. CASE IceStep \/ UNCHANGED vars
  BY <1>1, <1>2 DEF IceStep
<1>3. ASSUME NEW p \in Peers, Runs(p) PROVE TraceInv(q)'
  <2>1. CASE CreatePeer(p)
    <3>1. fetch[p] # "built" /\ fetch'[p] = "built"
      BY <2>1, PeerAssumption DEF IceTypeOK, CreatePeer, ConfigBuilt, CacheHit, Answered, AskFails, Built
    <3>2. CASE q = p
      BY <2>1, <3>1, <3>2 DEF CreatePeer
    <3>3. CASE q # p
      BY <1>1, <2>1, <3>3 DEF CreatePeer
    <3> QED BY <3>2, <3>3
  <2>2. CASE ApplyOffer(p) \/ AnswerOffer(p) \/ OnTrack(p)
    BY <1>1, <2>2 DEF ApplyOffer, AnswerOffer, OnTrack, SetTask
  <2>3. CASE OnConnState(p)
    BY <1>1, <2>3 DEF OnConnState, CancelTasks, Terminated, DeadNow
  <2>4. CASE CloseTerminated(p)
    BY <1>1, <2>4 DEF CloseTerminated, CloseForGood, BeginClose
  <2>5. CASE TransportStops(p)
    BY <1>1, <2>5 DEF TransportStops, Notify
  <2>6. CASE CloseEnds(p)
    BY <1>1, <2>6 DEF CloseEnds, EndTrace, SetTask
  <2>7. CASE NeverRuns(p) \/ StartTrace(p)
    BY <1>1, <2>7 DEF NeverRuns, StartTrace, SetTask
  <2>8. CASE CloseCut(p) \/ WaitEnds(p)
    BY <1>1, <2>8 DEF CloseCut, WaitEnds, EndTrace, SetTask
  <2> QED BY <1>3, <2>1, <2>2, <2>3, <2>4, <2>5, <2>6, <2>7, <2>8 DEF Runs
<1>4. ASSUME NEW p \in Peers, OfferFails(p) PROVE TraceInv(q)'
  BY <1>1, <1>4 DEF OfferFails, BeginClose
<1>5. ASSUME NEW p \in Peers, Connects(p) \/ ConnectionDies(p) PROVE TraceInv(q)'
  BY <1>1, <1>5 DEF Connects, ConnectionDies, Notify
<1>6. ASSUME NEW p \in Peers, TraceFails(p) \/ CancelSwallowed(p) PROVE TraceInv(q)'
  BY <1>1, <1>6 DEF TraceFails, CancelSwallowed, SetTask
<1>7. ASSUME NEW p \in Peers, WorkflowEnds(p) PROVE TraceInv(q)'
  BY <1>1, <1>7 DEF WorkflowEnds, CloseInFinally, EndTrace, SetTask, BeginClose
<1> QED BY <1>2, <1>3, <1>4, <1>5, <1>6, <1>7 DEF Next

\* A pipeline that is over has ended its trace, or its connection is dead and the session
\* removed, wherever the close and the cancellation meet (audio_pipeline.py:99-121).
THEOREM LostTraceHasCauseAlways == Spec => []LostTraceHasCause
PROOF
<1> DEFINE Inv == \A p \in Peers : TraceInv(p)
<1>1. Init => Inv
  BY PeerAssumption DEF Init, IceInit, TraceInv
<1>2. TypeOK /\ Inv /\ [Next]_vars => Inv'
  BY TraceInvKept
<1>3. Inv => LostTraceHasCause
  BY DEF TraceInv, LostTraceHasCause
<1> HIDE DEF Inv
<1> QED BY <1>1, <1>2, <1>3, PeersTyped, PTL DEF Spec

=============================================================================
