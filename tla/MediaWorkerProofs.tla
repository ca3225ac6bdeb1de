------------------------- MODULE MediaWorkerProofs -------------------------
(***************************************************************************)
(* Theorems about MediaWorker, for any sets of workers and sessions and    *)
(* any bounds: its types, the delivery of offers, the refinement of        *)
(* OfferDelivery, and the life of a worker process: the shutdown,          *)
(* active_sessions, the semaphore and what stays pending.                  *)
(***************************************************************************)
EXTENDS MediaWorker, FiniteSetTheorems, TLAPS

USE DEF Id, Phases, Ended, Holding, InFlight, Steps, Offer, Kinds, RegistryKeys,
        Usable, ClosePhases, PcStates

LEMMA InitType == Init => TypeOK
<1> SUFFICES ASSUME Init PROVE TypeOK
    OBVIOUS
<1>1. StreamTypeOK
  <2>1. stream \in Seq(Offer) /\ Len(stream) = 0
    BY DEF Init, StreamInit
  <2>2. pel \in [Id -> Workers \cup {None}]
    BY DEF Init, StreamInit
  <2>3. Len(stream) \in 0..MaxOffers
    BY <2>1, StreamAssumption DEF StreamAssumption
  <2>4. groupMade \in BOOLEAN /\ idle \in SUBSET Id
    BY DEF Init, StreamInit
  <2>5. lastId \in 0..Len(stream)
    BY <2>1 DEF Init, StreamInit
  <2>6. consumers \in SUBSET Workers /\ registry \in SUBSET RegistryKeys
    BY DEF Init, StreamInit
  <2>7. QED
    BY <2>1, <2>2, <2>3, <2>4, <2>5, <2>6 DEF StreamTypeOK
<1>2. ProcTypeOK
  BY DEF Init, ProcTypeOK
<1>3. TaskTypeOK
  BY WorkerAssumption DEF WorkerAssumption, Init, TaskTypeOK
<1>4. PeerTypeOK
  BY StreamAssumption DEF StreamAssumption, Init, PeerTypeOK
<1>5. faults \in 0..MaxFaults
  BY WorkerAssumption DEF WorkerAssumption, Init
<1>6. QED
  BY <1>1, <1>2, <1>3, <1>4, <1>5 DEF TypeOK

\* The commands of the stream keep its types.
LEMMA XAddType ==
  ASSUME StreamTypeOK, NEW s \in Sessions, NEW k \in Kinds, XAdd(s, k)
  PROVE  StreamTypeOK'
BY StreamAssumption DEF StreamAssumption, StreamTypeOK, XAdd

LEMMA XReadGroupType ==
  ASSUME StreamTypeOK, NEW w \in Workers, NEW n \in Nat, XReadGroup(w, n)
  PROVE  StreamTypeOK'
BY StreamAssumption
   DEF StreamAssumption, StreamTypeOK, XReadGroup, NewEntries, PelAfterRead, LastIdAfter

LEMMA XAckType ==
  ASSUME StreamTypeOK, NEW m \in Id, XAck(m)
  PROVE  StreamTypeOK'
BY DEF StreamTypeOK, XAck

LEMMA XClaimType ==
  ASSUME StreamTypeOK, NEW w \in Workers, NEW m \in Id, XClaim(w, m)
  PROVE  StreamTypeOK'
BY DEF StreamTypeOK, XClaim

LEMMA XGroupDelConsumerType ==
  ASSUME StreamTypeOK, NEW w \in Workers, XGroupDelConsumer(w)
  PROVE  StreamTypeOK'
BY DEF StreamTypeOK, XGroupDelConsumer

LEMMA BecomeIdleType ==
  ASSUME StreamTypeOK, NEW m \in Id, BecomeIdle(m)
  PROVE  StreamTypeOK'
BY DEF StreamTypeOK, BecomeIdle

LEMMA XGroupCreateType ==
  ASSUME StreamTypeOK, XGroupCreate
  PROVE  StreamTypeOK'
BY DEF StreamTypeOK, XGroupCreate

LEMMA SAddType ==
  ASSUME StreamTypeOK, SAdd
  PROVE  StreamTypeOK'
BY DEF StreamTypeOK, SAdd

\* A group of variables that does not change keeps its types.
LEMMA UnchangedTypes ==
  /\ StreamTypeOK /\ UNCHANGED streamVars => StreamTypeOK'
  /\ ProcTypeOK /\ UNCHANGED procVars => ProcTypeOK'
  /\ TaskTypeOK /\ UNCHANGED taskVars => TaskTypeOK'
  /\ PeerTypeOK /\ UNCHANGED peerVars => PeerTypeOK'
<1>1. StreamTypeOK /\ UNCHANGED streamVars => StreamTypeOK'
  BY DEF StreamTypeOK, streamVars
<1>2. ProcTypeOK /\ UNCHANGED procVars => ProcTypeOK'
  BY DEF ProcTypeOK, procVars
<1>3. TaskTypeOK /\ UNCHANGED taskVars => TaskTypeOK'
  BY DEF TaskTypeOK, taskVars
<1>4. PeerTypeOK /\ UNCHANGED peerVars => PeerTypeOK'
  BY DEF PeerTypeOK, peerVars
<1>5. QED
  BY <1>1, <1>2, <1>3, <1>4

LEMMA FaultType == faults \in 0..MaxFaults /\ Fault => faults' \in 0..MaxFaults
BY WorkerAssumption DEF WorkerAssumption, Fault

LEMMA ProcessEndsType ==
  ASSUME ProcTypeOK, TaskTypeOK, PeerTypeOK, NEW w \in Workers,
         NEW how \in Ended, ProcessEnds(w, how)
  PROVE  ProcTypeOK' /\ TaskTypeOK' /\ PeerTypeOK'
<1>1. ProcTypeOK'
  BY DEF ProcTypeOK, ProcessEnds
<1>2. TaskTypeOK'
  BY DEF TaskTypeOK, ProcessEnds
<1>3. PeerTypeOK'
  <2>1. active' \in [Workers -> [Sessions -> 0..MaxOffers]]
    BY StreamAssumption DEF StreamAssumption, PeerTypeOK, ProcessEnds
  <2>2. pc' \in [Id -> PcStates]
    BY DEF PeerTypeOK, ProcessEnds
  <2>3. events' \in [Id -> SUBSET {"failed", "closed"}]
    BY DEF PeerTypeOK, ProcessEnds
  <2>4. closeTasks' \in SUBSET Id /\ listening' \in SUBSET Id
    BY DEF PeerTypeOK, ProcessEnds
  <2>5. QED
    BY <2>1, <2>2, <2>3, <2>4 DEF PeerTypeOK
<1>4. QED
  BY <1>1, <1>2, <1>3

LEMMA ClosePcType ==
  ASSUME PeerTypeOK, NEW m \in Id, ClosePc(m)
  PROVE  /\ pc' \in [Id -> PcStates]
         /\ events' \in [Id -> SUBSET {"failed", "closed"}]
<1>1. pc' \in [Id -> PcStates]
  BY DEF PeerTypeOK, ClosePc
<1>2. events' \in [Id -> SUBSET {"failed", "closed"}]
  BY DEF PeerTypeOK, ClosePc
<1>3. QED
  BY <1>1, <1>2

\* Adding to one entry keeps a table of counters.
LEMMA CountUpType ==
  ASSUME NEW S, NEW f \in [S -> Nat], NEW x, NEW n \in Nat
  PROVE  [f EXCEPT ![x] = @ + n] \in [S -> Nat]
<1> DEFINE g == [f EXCEPT ![x] = @ + n]
<1>1. ASSUME NEW y \in S PROVE g[y] \in Nat
  <2>1. CASE y = x
    <3>1. f[x] \in Nat BY <2>1
    <3>2. g[y] = f[x] + n BY <2>1
    <3>3. QED BY <3>1, <3>2
  <2>2. CASE y # x
    BY <2>2
  <2>3. QED BY <2>1, <2>2
<1>2. QED
  BY <1>1

LEMMA FinishType ==
  ASSUME TaskTypeOK, NEW m \in Id, Finish(m)
  PROVE  /\ permits' \in [Workers -> Nat]
         /\ step' \in [Id -> Steps]
<1>1. permits' \in [Workers -> Nat]
  BY CountUpType DEF TaskTypeOK, Finish
<1>2. step' \in [Id -> Steps]
  BY DEF TaskTypeOK, Finish, SetStep
<1>3. QED
  BY <1>1, <1>2

\* Each action keeps the types.
LEMMA EnsureGroupType ==
  ASSUME TypeOK, NEW w \in Workers, EnsureGroup(w)
  PROVE  TypeOK'
BY UnchangedTypes, XGroupCreateType DEF EnsureGroup, TypeOK, ProcTypeOK

LEMMA EnsureGroupFailsType ==
  ASSUME TypeOK, NEW w \in Workers, EnsureGroupFails(w)
  PROVE  TypeOK'
BY UnchangedTypes, FaultType DEF EnsureGroupFails, TypeOK, ProcTypeOK

LEMMA RegisterType ==
  ASSUME TypeOK, NEW w \in Workers, Register(w)
  PROVE  TypeOK'
BY UnchangedTypes, SAddType DEF Register, TypeOK, ProcTypeOK

LEMMA IssueReadType ==
  ASSUME TypeOK, NEW w \in Workers, IssueRead(w)
  PROVE  TypeOK'
BY UnchangedTypes, WorkerAssumption DEF IssueRead, TypeOK, ProcTypeOK, WorkerAssumption, BatchSize

LEMMA ReadTimesOutType ==
  ASSUME TypeOK, NEW w \in Workers, ReadTimesOut(w)
  PROVE  TypeOK'
BY UnchangedTypes DEF ReadTimesOut, TypeOK, ProcTypeOK

LEMMA ReadFailsType ==
  ASSUME TypeOK, NEW w \in Workers, ReadFails(w)
  PROVE  TypeOK'
BY UnchangedTypes, FaultType DEF ReadFails, TypeOK, ProcTypeOK

LEMMA SpawnType ==
  ASSUME TypeOK, NEW w \in Workers, Spawn(w)
  PROVE  TypeOK'
BY UnchangedTypes DEF Spawn, ReplyLeft, TypeOK, ProcTypeOK, TaskTypeOK

LEMMA ReclaimScanType ==
  ASSUME TypeOK, NEW w \in Workers, ReclaimScan(w)
  PROVE  TypeOK'
BY UnchangedTypes DEF ReclaimScan, TypeOK, ProcTypeOK, StreamTypeOK

LEMMA ReclaimFailsType ==
  ASSUME TypeOK, NEW w \in Workers, ReclaimFails(w)
  PROVE  TypeOK'
BY UnchangedTypes, FaultType DEF ReclaimFails, TypeOK, ProcTypeOK

LEMMA SigtermType ==
  ASSUME TypeOK, NEW w \in Workers, Sigterm(w)
  PROVE  TypeOK'
BY UnchangedTypes DEF Sigterm, TypeOK, ProcTypeOK

LEMMA LeaveLoopType ==
  ASSUME TypeOK, NEW w \in Workers, LeaveLoop(w)
  PROVE  TypeOK'
BY UnchangedTypes DEF LeaveLoop, TypeOK, ProcTypeOK

LEMMA DrainedType ==
  ASSUME TypeOK, NEW w \in Workers, Drained(w)
  PROVE  TypeOK'
BY UnchangedTypes DEF Drained, TypeOK, ProcTypeOK

LEMMA CrashType ==
  ASSUME TypeOK, NEW w \in Workers, Crash(w)
  PROVE  TypeOK'
BY UnchangedTypes, FaultType, ProcessEndsType DEF Crash, TypeOK

LEMMA ShutdownAbortsType ==
  ASSUME TypeOK, NEW w \in Workers, ShutdownAborts(w)
  PROVE  TypeOK'
BY UnchangedTypes, ProcessEndsType DEF ShutdownAborts, TypeOK

LEMMA DeregisterFailsType ==
  ASSUME TypeOK, NEW w \in Workers, DeregisterFails(w)
  PROVE  TypeOK'
BY UnchangedTypes, FaultType, ProcessEndsType DEF DeregisterFails, TypeOK

LEMMA BuildFailsType ==
  ASSUME TypeOK, NEW m \in Id, BuildFails(m)
  PROVE  TypeOK'
BY UnchangedTypes, FaultType, FinishType DEF BuildFails, TypeOK, TaskTypeOK

LEMMA NegotiationType ==
  ASSUME TypeOK, NEW m \in Id,
         \/ SetRemote(m) \/ CreateAnswer(m) \/ SetLocal(m)
         \/ OfferMalformed(m) \/ NegotiationFails(m)
  PROVE  TypeOK'
<1>1. step' \in [Id -> Steps]
  BY DEF SetRemote, CreateAnswer, SetLocal, OfferMalformed, NegotiationFails, AfterError, SetStep,
     TypeOK, TaskTypeOK
<1>2. PeerTypeOK'
  BY UnchangedTypes DEF SetRemote, CreateAnswer, SetLocal, OfferMalformed, NegotiationFails,
     TypeOK, PeerTypeOK
<1>3. faults' \in 0..MaxFaults
  BY FaultType DEF SetRemote, CreateAnswer, SetLocal, OfferMalformed, NegotiationFails, TypeOK
<1>4. QED
  BY <1>1, <1>2, <1>3, UnchangedTypes
     DEF SetRemote, CreateAnswer, SetLocal, OfferMalformed, NegotiationFails, TypeOK, TaskTypeOK

LEMMA PublishAnswerType ==
  ASSUME TypeOK, NEW m \in Id, PublishAnswer(m)
  PROVE  TypeOK'
<1>1. answers' \in [Id -> Nat]
  BY CountUpType DEF TypeOK, TaskTypeOK, PublishAnswer, AddAnswers
<1>2. step' \in [Id -> Steps]
  BY DEF PublishAnswer, SetStep, TypeOK, TaskTypeOK
<1>3. QED
  BY <1>1, <1>2, UnchangedTypes, FaultType DEF PublishAnswer, TypeOK, TaskTypeOK

LEMMA PublishFailsType ==
  ASSUME TypeOK, NEW m \in Id, PublishFails(m)
  PROVE  TypeOK'
<1>1. answers' \in [Id -> Nat]
  <2>1. PICK n \in 0..2 : AddAnswers(m, n)
    BY DEF PublishFails
  <2>2. n \in Nat /\ answers \in [Id -> Nat]
    BY DEF TypeOK, TaskTypeOK
  <2>3. QED
    BY <2>1, <2>2, CountUpType DEF AddAnswers
<1>2. step' \in [Id -> Steps]
  BY DEF PublishFails, SetStep, TypeOK, TaskTypeOK
<1>3. QED
  BY <1>1, <1>2, UnchangedTypes, FaultType DEF PublishFails, TypeOK, TaskTypeOK

LEMMA AckMalformedType ==
  ASSUME TypeOK, NEW m \in Id, AckMalformed(m)
  PROVE  TypeOK'
BY UnchangedTypes, XAckType DEF AckMalformed, TypeOK, TaskTypeOK, SetStep, Acknowledge

LEMMA CloseOnErrorType ==
  ASSUME TypeOK, NEW m \in Id, CloseOnError(m)
  PROVE  TypeOK'
<1>1. step' \in [Id -> Steps] /\ permits' \in [Workers -> Nat]
  BY FinishType DEF CloseOnError, SetStep, TypeOK, TaskTypeOK
<1>2. PeerTypeOK'
  BY ClosePcType DEF CloseOnError, TypeOK, PeerTypeOK
<1>3. QED
  BY <1>1, <1>2, UnchangedTypes DEF CloseOnError, TypeOK, TaskTypeOK

LEMMA WaitEndsType ==
  ASSUME TypeOK, NEW m \in Id, WaitEnds(m)
  PROVE  TypeOK'
BY UnchangedTypes, FinishType DEF WaitEnds, TypeOK, TaskTypeOK

LEMMA ConnectionFailsType ==
  ASSUME TypeOK, NEW m \in Id, ConnectionFails(m)
  PROVE  TypeOK'
BY UnchangedTypes, FaultType DEF ConnectionFails, TypeOK, PeerTypeOK

LEMMA PipelineClosesType ==
  ASSUME TypeOK, NEW m \in Id, PipelineCloses(m)
  PROVE  TypeOK'
BY UnchangedTypes DEF PipelineCloses, TypeOK, PeerTypeOK

LEMMA CloseStepType ==
  ASSUME TypeOK, NEW m \in Id, CloseStep(m)
  PROVE  TypeOK'
<1>1. CASE TransportStops(m)
  BY <1>1, UnchangedTypes DEF TransportStops, TypeOK, PeerTypeOK
<1>2. CASE PipelineClosed(m)
  BY <1>2, UnchangedTypes DEF PipelineClosed, TypeOK, PeerTypeOK
<1>3. QED
  BY <1>1, <1>2 DEF CloseStep

LEMMA CloseTaskType ==
  ASSUME TypeOK, NEW m \in Id, CloseTask(m)
  PROVE  TypeOK'
BY UnchangedTypes, ClosePcType DEF CloseTask, TypeOK, PeerTypeOK

LEMMA PassTimeType ==
  ASSUME TypeOK, NEW m \in Id, PassTime(m)
  PROVE  TypeOK'
BY UnchangedTypes, BecomeIdleType DEF PassTime, TypeOK

LEMMA PublishOfferType ==
  ASSUME TypeOK, NEW s \in Sessions, NEW k \in OfferKinds, PublishOffer(s, k)
  PROVE  TypeOK'
<1>1. k \in Kinds
  BY WorkerAssumption DEF WorkerAssumption
<1>2. QED
  BY <1>1, XAddType, UnchangedTypes DEF PublishOffer, TypeOK

LEMMA DeliverType ==
  ASSUME TypeOK, NEW w \in Workers, Deliver(w)
  PROVE  TypeOK'
<1>1. want[w] \in Nat
  BY DEF TypeOK, ProcTypeOK
<1>2. StreamTypeOK'
  BY <1>1, XReadGroupType DEF Deliver, TypeOK
<1>3. ProcTypeOK'
  BY DEF Deliver, TypeOK, ProcTypeOK, NewEntries
<1>4. QED
  BY <1>2, <1>3, UnchangedTypes DEF Deliver, TypeOK

LEMMA AcquireType ==
  ASSUME TypeOK, NEW m \in Id, Acquire(m)
  PROVE  TypeOK'
<1>1. permits' \in [Workers -> Nat]
  <2> DEFINE g == [permits EXCEPT ![host[m]] = @ - 1]
  <2>1. ASSUME NEW w \in Workers PROVE g[w] \in Nat
    <3>1. permits[w] \in Nat
      BY DEF TypeOK, TaskTypeOK
    <3>2. CASE w = host[m]
      <4>1. g[w] = permits[w] - 1 /\ permits[w] > 0
        BY <3>2 DEF Acquire, SlotFree, TypeOK, TaskTypeOK
      <4>2. QED
        BY <4>1, <3>1
    <3>3. CASE w # host[m]
      BY <3>1, <3>3 DEF TypeOK, TaskTypeOK
    <3>4. QED
      BY <3>2, <3>3
  <2>2. g \in [Workers -> Nat]
    BY <2>1 DEF TypeOK, TaskTypeOK
  <2>3. QED
    BY <2>2 DEF Acquire
<1>2. step' \in [Id -> Steps]
  BY DEF Acquire, SetStep, TypeOK, TaskTypeOK
<1>3. QED
  BY <1>1, <1>2, UnchangedTypes DEF Acquire, TypeOK, TaskTypeOK

\* active_sessions after an entry is written or dropped.
LEMMA SetEntryType ==
  ASSUME PeerTypeOK, NEW w, NEW s, NEW v \in 0..MaxOffers
  PROVE  [active EXCEPT ![w][s] = v] \in [Workers -> [Sessions -> 0..MaxOffers]]
BY DEF PeerTypeOK

LEMMA CreatePeerType ==
  ASSUME TypeOK, NEW m \in Id, CreatePeer(m)
  PROVE  TypeOK'
<1>1. active' \in [Workers -> [Sessions -> 0..MaxOffers]]
  BY SetEntryType, StreamAssumption DEF StreamAssumption, CreatePeer, EnterSession, TypeOK
<1>2. PeerTypeOK'
  BY <1>1 DEF CreatePeer, TypeOK, PeerTypeOK
<1>3. step' \in [Id -> Steps]
  BY DEF CreatePeer, SetStep, TypeOK, TaskTypeOK
<1>4. QED
  BY <1>2, <1>3, UnchangedTypes DEF CreatePeer, TypeOK, TaskTypeOK

LEMMA OnTerminatedType ==
  ASSUME TypeOK, NEW m \in Id, NEW e \in {"failed", "closed"}, OnTerminated(m, e)
  PROVE  TypeOK'
<1>1. active' \in [Workers -> [Sessions -> 0..MaxOffers]]
  BY SetEntryType, StreamAssumption DEF StreamAssumption, OnTerminated, DropSession, TypeOK
<1>2. PeerTypeOK'
  BY <1>1 DEF OnTerminated, CutClose, ScheduleClose, TypeOK, PeerTypeOK
<1>3. QED
  BY <1>2, UnchangedTypes DEF OnTerminated, TypeOK

LEMMA AckType ==
  ASSUME TypeOK, NEW m \in Id, Ack(m) \/ AckFails(m) \/ AckMalformedFails(m)
  PROVE  TypeOK'
<1>1. StreamTypeOK' /\ acked' \in SUBSET Id
  BY XAckType, UnchangedTypes
     DEF Ack, AckFails, AckMalformedFails, Acknowledge, TypeOK, TaskTypeOK
<1>2. step' \in [Id -> Steps] /\ permits' \in [Workers -> Nat]
  BY FinishType DEF Ack, AckFails, AckMalformedFails, SetStep, TypeOK, TaskTypeOK
<1>3. faults' \in 0..MaxFaults
  BY FaultType DEF Ack, AckFails, AckMalformedFails, TypeOK
<1>4. QED
  BY <1>1, <1>2, <1>3, UnchangedTypes DEF Ack, AckFails, AckMalformedFails, TypeOK, TaskTypeOK

LEMMA ReclaimNextType ==
  ASSUME TypeOK, NEW w \in Workers, ReclaimNext(w)
  PROVE  TypeOK'
<1>1. PICK m \in snapshot[w] : XClaim(w, m) /\ snapshot' = [snapshot EXCEPT ![w] = @ \ {m}]
  BY DEF ReclaimNext
<1>2. m \in Id
  BY <1>1 DEF TypeOK, ProcTypeOK
<1>3. StreamTypeOK'
  BY <1>1, <1>2, XClaimType DEF TypeOK
<1>4. ProcTypeOK'
  BY <1>1 DEF ReclaimNext, TypeOK, ProcTypeOK
<1>5. QED
  BY <1>3, <1>4, UnchangedTypes DEF ReclaimNext, TypeOK

LEMMA LeaveGroupType ==
  ASSUME TypeOK, NEW w \in Workers, LeaveGroup(w)
  PROVE  TypeOK'
<1>1. StreamTypeOK' /\ faults' \in 0..MaxFaults
  BY XGroupDelConsumerType, FaultType, UnchangedTypes DEF LeaveGroup, TypeOK
<1>2. QED
  BY <1>1, UnchangedTypes DEF LeaveGroup, TypeOK, ProcTypeOK

LEMMA DeregisterType ==
  ASSUME TypeOK, NEW w \in Workers, Deregister(w)
  PROVE  TypeOK'
<1>1. StreamTypeOK'
  BY DEF Deregister, TypeOK, StreamTypeOK
<1>2. QED
  BY <1>1, ProcessEndsType DEF Deregister, TypeOK

\* A step of each kind, and any step, keeps the types.
LEMMA TypeStep == TypeOK /\ [Next]_vars => TypeOK'
<1> SUFFICES ASSUME TypeOK, [Next]_vars PROVE TypeOK'
    OBVIOUS
<1>1. CASE UNCHANGED vars
  BY <1>1, UnchangedTypes DEF TypeOK, vars
<1>2. ASSUME NEW s \in Sessions, NEW k \in OfferKinds, PublishOffer(s, k) PROVE TypeOK'
  BY <1>2, PublishOfferType
<1>3. ASSUME NEW w \in Workers, StartStep(w) PROVE TypeOK'
  BY <1>3, EnsureGroupType, EnsureGroupFailsType, RegisterType DEF StartStep
<1>4. ASSUME NEW w \in Workers, LoopStep(w) PROVE TypeOK'
  BY <1>4, IssueReadType, DeliverType, ReadTimesOutType, ReadFailsType, SpawnType,
     ReclaimScanType, ReclaimNextType, ReclaimFailsType DEF LoopStep
<1>5. ASSUME NEW w \in Workers, StopStep(w) PROVE TypeOK'
  BY <1>5, SigtermType, CrashType, LeaveLoopType, DrainedType, ShutdownAbortsType,
     LeaveGroupType, DeregisterType, DeregisterFailsType DEF StopStep
<1>6. ASSUME NEW m \in Id, HandlerStep(m) PROVE TypeOK'
  BY <1>6, AcquireType, BuildFailsType, CreatePeerType, NegotiationType, PublishAnswerType,
     PublishFailsType, AckType, AckMalformedType, CloseOnErrorType, WaitEndsType DEF HandlerStep
<1>7. ASSUME NEW m \in Id, PeerStep(m) PROVE TypeOK'
  BY <1>7, ConnectionFailsType, PipelineClosesType, CloseStepType, CloseTaskType, OnTerminatedType
     DEF PeerStep
<1>8. ASSUME NEW m \in Id, PassTime(m) PROVE TypeOK'
  BY <1>8, PassTimeType
<1>9. QED
  BY <1>1, <1>2, <1>3, <1>4, <1>5, <1>6, <1>7, <1>8 DEF Next

\* Every variable keeps its type in every behaviour of the workers.
THEOREM TypeCorrect == Spec => []TypeOK
<1>1. QED
  BY InitType, TypeStep, PTL DEF Spec

----------------------------------------------------------------------------
(* The delivery invariant. *)

USE DEF DeliveredOnce, AnswerFollowsStep, AckedSettled

\* What the delivery invariant is about.
deliveryVars == <<stream, lastId, pel, host, step, batch, answers, acked>>

LEMMA DeliveryFrame == DeliveryInv /\ UNCHANGED deliveryVars => DeliveryInv'
BY DEF DeliveryInv, deliveryVars

LEMMA InitDelivery == Init => DeliveryInv
BY DEF Init, StreamInit, DeliveryInv

\* A worker may lose its reply, and its handlers may be lost.
LEMMA LossDelivery ==
  ASSUME TypeOK, DeliveryInv, NEW w \in Workers,
         batch' = [batch EXCEPT ![w] = {}],
         \A m \in Id : step'[m] = step[m] \/ (step[m] # "none" /\ step'[m] = "lost"),
         UNCHANGED <<stream, lastId, pel, host, answers, acked>>
  PROVE  DeliveryInv'
<1>1. DeliveredOnce'
  BY DEF TypeOK, ProcTypeOK, DeliveryInv
<1>2. AnswerFollowsStep'
  BY DEF DeliveryInv
<1>3. AckedSettled'
  BY DEF DeliveryInv
<1>4. QED
  BY <1>1, <1>2, <1>3 DEF DeliveryInv

LEMMA ProcessEndsDelivery ==
  ASSUME TypeOK, DeliveryInv, NEW w \in Workers, NEW how, ProcessEnds(w, how),
         UNCHANGED <<stream, lastId, pel>>
  PROVE  DeliveryInv'
BY LossDelivery DEF ProcessEnds

LEMMA PublishOfferDelivery ==
  ASSUME TypeOK, DeliveryInv, NEW s \in Sessions, NEW k \in OfferKinds, PublishOffer(s, k)
  PROVE  DeliveryInv'
<1>1. \A m \in Id : m <= lastId => stream'[m] = stream[m]
  BY DEF PublishOffer, XAdd, TypeOK, StreamTypeOK
<1>2. UNCHANGED <<lastId, pel, host, step, batch, answers, acked>>
  BY DEF PublishOffer, XAdd, procVars, taskVars
<1>3. DeliveredOnce'
  BY <1>2 DEF DeliveryInv
<1>4. AnswerFollowsStep'
  BY <1>1, <1>2 DEF DeliveryInv
<1>5. AckedSettled'
  BY <1>1, <1>2 DEF DeliveryInv, TypeOK, TaskTypeOK
<1>6. QED
  BY <1>3, <1>4, <1>5 DEF DeliveryInv

LEMMA DeliverDelivery ==
  ASSUME TypeOK, DeliveryInv, NEW w \in Workers, Deliver(w)
  PROVE  DeliveryInv'
<1> DEFINE new == NewEntries(want[w])
<1>1. want[w] \in Nat /\ lastId \in Nat /\ Len(stream) \in Nat /\ lastId <= Len(stream)
  BY DEF TypeOK, ProcTypeOK, StreamTypeOK
<1>2. lastId' \in Nat /\ lastId <= lastId' /\ \A m \in new : lastId < m /\ m <= lastId'
  BY <1>1 DEF Deliver, XReadGroup, NewEntries, LastIdAfter
<1>3. batch' = [batch EXCEPT ![w] = new] /\ UNCHANGED <<stream, host, step, answers, acked>>
  BY DEF Deliver, XReadGroup, taskVars
<1>4. \A m \in Id : pel'[m] = IF m \in new THEN w ELSE pel[m]
  BY DEF Deliver, XReadGroup, PelAfterRead
<1>5. \A m \in new : m \in Id /\ step[m] = "none" /\ m \notin acked /\ \A v \in Workers : m \notin batch[v]
  BY <1>1, <1>2 DEF DeliveryInv, NewEntries
<1>6. DeliveredOnce'
  <2>1. \A m \in Id : step'[m] # "none" => m <= lastId' /\ host'[m] \in Workers
    BY <1>1, <1>2, <1>3 DEF DeliveryInv
  <2>2. \A v \in Workers : \A m \in batch'[v] : m <= lastId' /\ step'[m] = "none"
    <3> SUFFICES ASSUME NEW v \in Workers, NEW m \in batch'[v]
                 PROVE  m <= lastId' /\ step'[m] = "none"
      OBVIOUS
    <3>1. CASE v = w
      BY <1>2, <1>3, <1>5, <3>1 DEF TypeOK, ProcTypeOK
    <3>2. CASE v # w
      <4>1. m \in batch[v] /\ m \in Id
        BY <1>3, <3>2 DEF TypeOK, ProcTypeOK
      <4>2. m <= lastId /\ step[m] = "none"
        BY <4>1 DEF DeliveryInv
      <4>3. QED
        BY <1>1, <1>2, <1>3, <4>1, <4>2
    <3>3. QED
      BY <3>1, <3>2
  <2>3. \A u, v \in Workers : u # v => batch'[u] \cap batch'[v] = {}
    BY <1>3, <1>5 DEF DeliveryInv, TypeOK, ProcTypeOK
  <2>4. QED
    BY <2>1, <2>2, <2>3
<1>7. AnswerFollowsStep'
  BY <1>3 DEF DeliveryInv
<1>8. AckedSettled'
  <2>1. \A m \in acked' : /\ m <= lastId' /\ pel'[m] = None
                          /\ answers'[m] # 0 \/ stream'[m].kind = "malformed"
    <3> SUFFICES ASSUME NEW m \in acked
                 PROVE  /\ m <= lastId' /\ pel'[m] = None
                        /\ answers[m] # 0 \/ stream[m].kind = "malformed"
      BY <1>3
    <3>1. m \in Id /\ m <= lastId /\ pel[m] = None /\ m \notin new
      BY <1>5 DEF DeliveryInv, TypeOK, TaskTypeOK
    <3>2. QED
      BY <1>1, <1>2, <1>4, <3>1 DEF DeliveryInv
  <2>2. \A m \in Id : pel'[m] # None => m <= lastId'
    BY <1>1, <1>2, <1>4 DEF DeliveryInv
  <2>3. QED
    BY <2>1, <2>2
<1>9. QED
  BY <1>6, <1>7, <1>8 DEF DeliveryInv

LEMMA SpawnDelivery ==
  ASSUME TypeOK, DeliveryInv, NEW w \in Workers, Spawn(w)
  PROVE  DeliveryInv'
<1>1. /\ \A m \in Id : step'[m] = IF m \in batch[w] THEN "spawned" ELSE step[m]
      /\ \A m \in Id : host'[m] = IF m \in batch[w] THEN w ELSE host[m]
      /\ batch' = [batch EXCEPT ![w] = {}]
      /\ UNCHANGED <<stream, lastId, pel, answers, acked>>
  BY DEF Spawn, ReplyLeft, streamVars
<1>2. \A m \in batch[w] : m \in Id /\ m <= lastId /\ step[m] = "none"
  BY DEF DeliveryInv, TypeOK, ProcTypeOK
<1>3. DeliveredOnce'
  <2>1. \A m \in Id : step'[m] # "none" => m <= lastId' /\ host'[m] \in Workers
    BY <1>1, <1>2 DEF DeliveryInv
  <2>2. \A v \in Workers : \A m \in batch'[v] : m <= lastId' /\ step'[m] = "none"
    BY <1>1, <1>2 DEF DeliveryInv, TypeOK, ProcTypeOK
  <2>3. \A u, v \in Workers : u # v => batch'[u] \cap batch'[v] = {}
    BY <1>1 DEF DeliveryInv, TypeOK, ProcTypeOK
  <2>4. QED
    BY <2>1, <2>2, <2>3
<1>4. AnswerFollowsStep'
  BY <1>1, <1>2 DEF DeliveryInv
<1>5. AckedSettled'
  BY <1>1 DEF DeliveryInv
<1>6. QED
  BY <1>3, <1>4, <1>5 DEF DeliveryInv

\* A handler that moves on stays a handler of a delivered offer.
LEMMA MoveDelivered ==
  ASSUME TypeOK, DeliveryInv, NEW m \in Id, NEW q \in Steps, step[m] # "none",
         SetStep(m, q), UNCHANGED <<lastId, host, batch>>
  PROVE  DeliveredOnce'
<1>1. \A n \in Id : step'[n] = IF n = m THEN q ELSE step[n]
  BY DEF SetStep, TypeOK, TaskTypeOK
<1>2. \A w \in Workers : m \notin batch[w]
  BY DEF DeliveryInv
<1>3. QED
  BY <1>1, <1>2 DEF DeliveryInv, TypeOK, ProcTypeOK

\* A handler that moves on without answering or acknowledging.
LEMMA MoveDelivery ==
  ASSUME TypeOK, DeliveryInv, NEW m \in Id, NEW q \in Steps, step[m] # "none",
         SetStep(m, q), UNCHANGED <<stream, lastId, pel, host, batch, answers, acked>>,
         q \in {"building", "registered", "remote", "local", "answering", "badack"} =>
           answers[m] = 0,
         q = "badack" => stream[m].kind = "malformed",
         q \notin {"none", "spawned", "acking"}
  PROVE  DeliveryInv'
<1>1. \A n \in Id : step'[n] = IF n = m THEN q ELSE step[n]
  BY DEF SetStep, TypeOK, TaskTypeOK
<1>2. AnswerFollowsStep'
  BY <1>1 DEF DeliveryInv
<1>3. AckedSettled'
  BY DEF DeliveryInv
<1>4. QED
  BY <1>2, <1>3, MoveDelivered DEF DeliveryInv

\* A handler that publishes the answer.
LEMMA AnswerDelivery ==
  ASSUME TypeOK, DeliveryInv, NEW m \in Id, step[m] = "answering",
         NEW q \in {"acking", "closing"}, SetStep(m, q),
         NEW n \in 0..2, AddAnswers(m, n), q = "acking" => n # 0,
         UNCHANGED <<stream, lastId, pel, host, batch, acked>>
  PROVE  DeliveryInv'
<1>1. \A i \in Id : /\ step'[i] = IF i = m THEN q ELSE step[i]
                    /\ answers'[i] = IF i = m THEN answers[i] + n ELSE answers[i]
  BY DEF AddAnswers, SetStep, TypeOK, TaskTypeOK
<1>2. answers[m] = 0
  BY DEF DeliveryInv
<1>3. AnswerFollowsStep'
  BY <1>1, <1>2 DEF DeliveryInv
<1>4. AckedSettled'
  BY <1>1, <1>2 DEF DeliveryInv, TypeOK, TaskTypeOK
<1>5. QED
  BY <1>3, <1>4, MoveDelivered DEF DeliveryInv

\* A handler that acknowledges once the verdict is known.
LEMMA AcknowledgeDelivery ==
  ASSUME TypeOK, DeliveryInv, NEW m \in Id, step[m] \in {"acking", "badack"},
         NEW q \in {"closing", "done"}, SetStep(m, q), Acknowledge(m),
         UNCHANGED <<host, batch, answers>>
  PROVE  DeliveryInv'
<1>1. \A n \in Id : /\ step'[n] = IF n = m THEN q ELSE step[n]
                    /\ pel'[n] = IF n = m THEN None ELSE pel[n]
  BY DEF SetStep, Acknowledge, XAck, TypeOK, TaskTypeOK, StreamTypeOK
<1>2. UNCHANGED <<stream, lastId>> /\ acked' = acked \cup {m}
  BY DEF Acknowledge, XAck
<1>3. m <= lastId /\ (answers[m] # 0 \/ stream[m].kind = "malformed")
  BY DEF DeliveryInv
<1>4. AnswerFollowsStep'
  BY <1>1, <1>2 DEF DeliveryInv
<1>5. AckedSettled'
  BY <1>1, <1>2, <1>3 DEF DeliveryInv, TypeOK, TaskTypeOK
<1>6. QED
  BY <1>2, <1>4, <1>5, MoveDelivered DEF DeliveryInv

LEMMA HandlerDelivery ==
  ASSUME TypeOK, DeliveryInv, NEW m \in Id, HandlerStep(m)
  PROVE  DeliveryInv'
<1> USE DEF streamVars, procVars
<1>1. CASE Acquire(m)
  <2>1. answers[m] = 0
    BY <1>1 DEF Acquire, DeliveryInv
  <2>2. QED
    BY <1>1, <2>1, MoveDelivery DEF Acquire
<1>2. CASE BuildFails(m)
  BY <1>2, MoveDelivery DEF BuildFails, Finish
<1>3. CASE CreatePeer(m)
  <2>1. answers[m] = 0
    BY <1>3 DEF CreatePeer, DeliveryInv
  <2>2. QED
    BY <1>3, <2>1, MoveDelivery DEF CreatePeer
<1>4. CASE SetRemote(m) \/ CreateAnswer(m) \/ SetLocal(m) \/ OfferMalformed(m) \/ NegotiationFails(m)
  <2>1. answers[m] = 0
    BY <1>4 DEF SetRemote, CreateAnswer, SetLocal, OfferMalformed, NegotiationFails, DeliveryInv
  <2>2. QED
    BY <1>4, <2>1, MoveDelivery
       DEF SetRemote, CreateAnswer, SetLocal, OfferMalformed, NegotiationFails, AfterError
<1>5. CASE PublishAnswer(m)
  BY <1>5, AnswerDelivery DEF PublishAnswer
<1>6. CASE PublishFails(m)
  BY <1>6, AnswerDelivery DEF PublishFails
<1>7. CASE Ack(m)
  BY <1>7, AcknowledgeDelivery DEF Ack, Finish
<1>8. CASE AckFails(m)
  BY <1>8, AcknowledgeDelivery, MoveDelivery DEF AckFails
<1>9. CASE AckMalformed(m)
  BY <1>9, AcknowledgeDelivery DEF AckMalformed
<1>10. CASE AckMalformedFails(m)
  BY <1>10, AcknowledgeDelivery, MoveDelivery DEF AckMalformedFails, Finish
<1>11. CASE CloseOnError(m)
  BY <1>11, MoveDelivery DEF CloseOnError, Finish
<1>12. CASE WaitEnds(m)
  BY <1>12, MoveDelivery DEF WaitEnds, Finish
<1>13. QED
  BY <1>1, <1>2, <1>3, <1>4, <1>5, <1>6, <1>7, <1>8, <1>9, <1>10, <1>11, <1>12 DEF HandlerStep

\* Claims and consumers leaving only touch what is pending.
LEMMA PendingDelivery ==
  ASSUME TypeOK, DeliveryInv,
         \A m \in Id : pel'[m] # None => pel[m] # None,
         UNCHANGED <<stream, lastId, host, step, batch, answers, acked>>
  PROVE  DeliveryInv'
BY DEF DeliveryInv, TypeOK, TaskTypeOK

LEMMA LoopDelivery ==
  ASSUME TypeOK, DeliveryInv, NEW w \in Workers, LoopStep(w)
  PROVE  DeliveryInv'
<1> USE DEF streamVars, taskVars
<1>1. CASE IssueRead(w) \/ ReadTimesOut(w) \/ ReclaimScan(w) \/ ReclaimFails(w)
  BY <1>1, DeliveryFrame DEF deliveryVars, IssueRead, ReadTimesOut, ReclaimScan, ReclaimFails
<1>2. CASE ReadFails(w)
  BY <1>2, LossDelivery DEF ReadFails
<1>3. CASE ReclaimNext(w)
  <2>1. PICK m \in snapshot[w] : XClaim(w, m)
    BY <1>3 DEF ReclaimNext
  <2>2. \A n \in Id : pel'[n] # None => pel[n] # None
    BY <2>1 DEF XClaim, Claimable, Pending, TypeOK, StreamTypeOK
  <2>3. QED
    BY <1>3, <2>1, <2>2, PendingDelivery DEF ReclaimNext, XClaim
<1>4. QED
  BY <1>1, <1>2, <1>3, DeliverDelivery, SpawnDelivery DEF LoopStep

LEMMA StopDelivery ==
  ASSUME TypeOK, DeliveryInv, NEW w \in Workers, StopStep(w)
  PROVE  DeliveryInv'
<1> USE DEF streamVars, taskVars
<1>1. CASE Sigterm(w) \/ Drained(w)
  BY <1>1, DeliveryFrame DEF deliveryVars, Sigterm, Drained
<1>2. CASE Crash(w) \/ ShutdownAborts(w) \/ Deregister(w) \/ DeregisterFails(w)
  BY <1>2, ProcessEndsDelivery DEF Crash, ShutdownAborts, Deregister, DeregisterFails
<1>3. CASE LeaveLoop(w)
  BY <1>3, LossDelivery DEF LeaveLoop
<1>4. CASE LeaveGroup(w)
  <2>1. \A n \in Id : pel'[n] # None => pel[n] # None
    BY <1>4 DEF LeaveGroup, XGroupDelConsumer
  <2>2. QED
    BY <1>4, <2>1, PendingDelivery DEF LeaveGroup, XGroupDelConsumer
<1>5. QED
  BY <1>1, <1>2, <1>3, <1>4 DEF StopStep

LEMMA DeliveryStep == TypeOK /\ DeliveryInv /\ [Next]_vars => DeliveryInv'
<1> SUFFICES ASSUME TypeOK, DeliveryInv, [Next]_vars PROVE DeliveryInv'
    OBVIOUS
<1>1. CASE UNCHANGED vars
  BY <1>1, DeliveryFrame DEF vars, deliveryVars, streamVars, procVars, taskVars
<1>2. ASSUME NEW w \in Workers, StartStep(w) PROVE DeliveryInv'
  BY <1>2, DeliveryFrame DEF deliveryVars, StartStep, EnsureGroup, EnsureGroupFails, Register,
     XGroupCreate, SAdd, streamVars, taskVars
<1>3. ASSUME NEW m \in Id, PeerStep(m) PROVE DeliveryInv'
  BY <1>3, DeliveryFrame DEF deliveryVars, PeerStep, ConnectionFails, PipelineCloses, CloseStep,
     TransportStops, PipelineClosed,
     CloseTask, OnTerminated, streamVars, procVars, taskVars
<1>4. ASSUME NEW m \in Id, PassTime(m) PROVE DeliveryInv'
  BY <1>4, DeliveryFrame DEF deliveryVars, PassTime, BecomeIdle, procVars, taskVars
<1>5. QED
  BY <1>1, <1>2, <1>3, <1>4, PublishOfferDelivery, LoopDelivery, StopDelivery, HandlerDelivery
     DEF Next

\* The delivery invariant holds in every behaviour, whatever crashes, claims,
\* lost replies and leaving consumers it contains.
THEOREM DeliveryCorrect == Spec => []DeliveryInv
<1>1. QED
  BY InitDelivery, DeliveryStep, TypeCorrect, PTL DEF Spec

\* An acknowledged offer was answered or can never be (worker.py:243).
THEOREM AckMeansVerdictAlways == Spec => []AckMeansVerdict
<1>1. DeliveryInv => AckMeansVerdict
  BY DEF DeliveryInv, AckMeansVerdict
<1>2. QED
  BY <1>1, DeliveryCorrect, PTL

\* Only a handler that publishes adds answers, and it finds none.
LEMMA AnswersStep ==
  TypeOK /\ DeliveryInv /\ [Next]_vars =>
    [\A m \in Id : answers'[m] # answers[m] => answers[m] = 0]_vars
<1> SUFFICES ASSUME TypeOK, DeliveryInv, Next, NEW m \in Id, answers'[m] # answers[m]
             PROVE  answers[m] = 0
    OBVIOUS
<1> USE DEF taskVars
<1>1. ASSUME NEW n \in Id, HandlerStep(n) PROVE answers[m] = 0
  <2>1. PublishAnswer(n) \/ PublishFails(n)
    BY <1>1 DEF HandlerStep, Acquire, BuildFails, CreatePeer, SetRemote, CreateAnswer, SetLocal,
       OfferMalformed, NegotiationFails, AfterError, Ack, AckFails,
       AckMalformed, AckMalformedFails, CloseOnError, WaitEnds
  <2>2. step[n] = "answering" /\ (m # n => answers'[m] = answers[m])
    BY <2>1 DEF PublishAnswer, PublishFails, AddAnswers, TypeOK, TaskTypeOK
  <2>3. QED
    BY <2>2 DEF DeliveryInv
<1>2. ASSUME NEW w \in Workers, StartStep(w) \/ LoopStep(w) \/ StopStep(w) PROVE answers' = answers
  BY <1>2 DEF StartStep, LoopStep, StopStep, EnsureGroup, EnsureGroupFails, Register, IssueRead,
     Deliver, ReadTimesOut, ReadFails, Spawn, ReclaimScan, ReclaimNext, ReclaimFails, Sigterm, Crash,
     LeaveLoop, Drained, ShutdownAborts, LeaveGroup, Deregister, DeregisterFails, ProcessEnds
<1>3. ASSUME NEW n \in Id, PeerStep(n) \/ PassTime(n) PROVE answers' = answers
  BY <1>3 DEF PeerStep, PassTime, ConnectionFails, PipelineCloses, CloseStep, TransportStops,
     PipelineClosed, CloseTask, OnTerminated
<1>4. ASSUME NEW s \in Sessions, NEW k \in OfferKinds, PublishOffer(s, k) PROVE answers' = answers
  BY <1>4 DEF PublishOffer
<1>5. QED
  BY <1>1, <1>2, <1>3, <1>4 DEF Next

\* All answers of an offer come from one call, whoever reads or claims it.
THEOREM AnsweredByOneCallAlways == Spec => AnsweredByOneCall
<1>1. QED
  BY AnswersStep, TypeCorrect, DeliveryCorrect, PTL DEF Spec, AnsweredByOneCall

\* No reclaim brings an acknowledged offer back to the pending list.
THEOREM AckedNeverPendingAlways == Spec => []AckedNeverPending
<1>1. DeliveryInv => AckedNeverPending
  BY DEF DeliveryInv, AckedNeverPending, Pending
<1>2. QED
  BY <1>1, DeliveryCorrect, PTL

----------------------------------------------------------------------------
(* The workers implement OfferDelivery: each step of MediaWorker is a step *)
(* of OfferDelivery under the mapping of Delivery, or changes nothing      *)
(* there.                                                                  *)

\* An acknowledged offer's handler is past the acknowledgement: no later
\* answer and no second acknowledgement can come from it.
AckedBehind == \A m \in acked : step[m] \in {"closing", "waiting", "done", "lost"}

LEMMA InitAckedBehind == Init => AckedBehind
BY DEF Init, AckedBehind

\* Steps that acknowledge nothing and start or move no handler back.
LEMMA AckedBehindFrame ==
  ASSUME AckedBehind, acked' = acked,
         \A m \in Id : \/ step'[m] = step[m]
                       \/ step'[m] \in {"closing", "waiting", "done", "lost"}
                       \/ step[m] \notin {"closing", "waiting", "done", "lost"},
         acked \in SUBSET Id
  PROVE  AckedBehind'
BY DEF AckedBehind

LEMMA HandlerAckedBehind ==
  ASSUME TypeOK, AckedBehind, NEW m \in Id, HandlerStep(m)
  PROVE  AckedBehind'
<1> USE DEF streamVars, procVars, taskVars
<1>1. \A n \in Id \ {m} : step'[n] = step[n]
  BY DEF HandlerStep, Acquire, BuildFails, CreatePeer, SetRemote, CreateAnswer, SetLocal,
     OfferMalformed, NegotiationFails, AfterError, PublishAnswer, PublishFails,
         Ack, AckFails, AckMalformed, AckMalformedFails, CloseOnError, WaitEnds, Finish, SetStep,
         TypeOK, TaskTypeOK
<1>2. acked' = acked \/ (acked' = acked \cup {m} /\ step'[m] \in {"closing", "done"})
  BY DEF HandlerStep, Acquire, BuildFails, CreatePeer, SetRemote, CreateAnswer, SetLocal,
     OfferMalformed, NegotiationFails, AfterError, PublishAnswer, PublishFails,
         Ack, AckFails, AckMalformed, AckMalformedFails, CloseOnError, WaitEnds, Finish, SetStep,
         Acknowledge, TypeOK, TaskTypeOK
<1>3. step[m] \in {"closing", "waiting", "done", "lost"} =>
        step'[m] \in {"closing", "waiting", "done", "lost"}
  BY DEF HandlerStep, Acquire, BuildFails, CreatePeer, SetRemote, CreateAnswer, SetLocal,
     OfferMalformed, NegotiationFails, AfterError, PublishAnswer, PublishFails,
         Ack, AckFails, AckMalformed, AckMalformedFails, CloseOnError, WaitEnds, Finish, SetStep,
         TypeOK, TaskTypeOK
<1>4. QED
  BY <1>1, <1>2, <1>3 DEF AckedBehind, TypeOK, TaskTypeOK

LEMMA WorkerAckedBehind ==
  ASSUME TypeOK, DeliveryInv, AckedBehind, NEW w \in Workers,
         StartStep(w) \/ LoopStep(w) \/ StopStep(w)
  PROVE  AckedBehind'
<1> USE DEF streamVars, taskVars
<1>1. acked' = acked
  BY DEF StartStep, LoopStep, StopStep, EnsureGroup, EnsureGroupFails, Register, IssueRead,
         Deliver, ReadTimesOut, ReadFails, Spawn, ReclaimScan, ReclaimNext, ReclaimFails,
         Sigterm, Crash, LeaveLoop, Drained, ShutdownAborts, LeaveGroup, Deregister,
         DeregisterFails, ProcessEnds
<1>2. CASE Spawn(w)
  <2>1. \A m \in Id : step'[m] = step[m] \/ step[m] = "none"
    BY <1>2 DEF Spawn, DeliveryInv
  <2>2. QED
    BY <1>1, <2>1, AckedBehindFrame DEF TypeOK, TaskTypeOK
<1>3. CASE ~Spawn(w)
  <2>1. \A m \in Id : step'[m] = step[m] \/ step'[m] = "lost"
    BY <1>3 DEF StartStep, LoopStep, StopStep, EnsureGroup, EnsureGroupFails, Register,
         IssueRead, Deliver, ReadTimesOut, ReadFails, ReclaimScan, ReclaimNext, ReclaimFails,
         Sigterm, Crash, LeaveLoop, Drained, ShutdownAborts, LeaveGroup, Deregister,
         DeregisterFails, ProcessEnds
  <2>2. QED
    BY <1>1, <2>1, AckedBehindFrame DEF TypeOK, TaskTypeOK
<1>4. QED
  BY <1>2, <1>3

LEMMA AckedBehindStep == TypeOK /\ DeliveryInv /\ AckedBehind /\ [Next]_vars => AckedBehind'
<1> SUFFICES ASSUME TypeOK, DeliveryInv, AckedBehind, [Next]_vars PROVE AckedBehind'
    OBVIOUS
<1>1. CASE UNCHANGED vars
  BY <1>1 DEF vars, taskVars, AckedBehind
<1>2. ASSUME NEW s \in Sessions, NEW k \in OfferKinds, PublishOffer(s, k) PROVE AckedBehind'
  BY <1>2 DEF PublishOffer, taskVars, AckedBehind
<1>3. ASSUME NEW m \in Id, PeerStep(m) \/ PassTime(m) PROVE AckedBehind'
  BY <1>3 DEF PeerStep, PassTime, ConnectionFails, PipelineCloses, CloseStep, TransportStops,
     PipelineClosed, CloseTask, OnTerminated,
              taskVars, AckedBehind
<1>4. QED
  BY <1>1, <1>2, <1>3, HandlerAckedBehind, WorkerAckedBehind DEF Next

LEMMA AckedBehindAlways == Spec => []AckedBehind
<1>1. QED
  BY InitAckedBehind, AckedBehindStep, TypeCorrect, DeliveryCorrect, PTL DEF Spec

----------------------------------------------------------------------------
(* Each step maps to a step of OfferDelivery. *)

Status == [m \in Id |-> OfferStatus(m)]
Rejectable == {m \in Sent : stream[m].kind = "malformed"}

\* What the mapping looks at.
mappedVars == <<stream, lastId, pel, acked, answers>>

\* The places an offer is in, once the invariants are known.
LEMMA StatusFacts ==
  ASSUME TypeOK, DeliveryInv, NEW m \in Id
  PROVE  /\ OfferStatus(m) = "unsent" <=> Len(stream) < m
         /\ OfferStatus(m) = "queued" <=> lastId < m /\ m <= Len(stream)
         /\ OfferStatus(m) = "acked" <=> m \in acked
         /\ OfferStatus(m) = "pending" <=> pel[m] # None
         /\ OfferStatus(m) = "dropped" <=> m <= lastId /\ m \notin acked /\ pel[m] = None
         /\ OfferStatus(m) \in {"unsent", "queued", "acked", "pending", "dropped"}
<1>1. lastId \in Nat /\ Len(stream) \in Nat /\ lastId <= Len(stream)
  BY DEF TypeOK, StreamTypeOK
<1>2. m \in acked => m <= lastId /\ pel[m] = None
  BY DEF DeliveryInv
<1>3. pel[m] # None => m <= lastId
  BY DEF DeliveryInv
<1>4. m \in Sent <=> m <= Len(stream)
  BY <1>1 DEF Sent
<1>5. m \in Pending <=> pel[m] # None
  BY DEF Pending
<1>6. QED
  BY <1>1, <1>2, <1>3, <1>4, <1>5 DEF OfferStatus

\* A table that agrees with OfferStatus after the step is the next table.
LEMMA MoveStatus ==
  ASSUME NEW S, NEW to,
         \A m \in Id : OfferStatus(m)' = IF m \in S THEN to ELSE OfferStatus(m)
  PROVE  Delivery!Move(S, to)
BY DEF Delivery!Move

LEMMA MappedFrame == UNCHANGED mappedVars => UNCHANGED Delivery!vars
BY DEF mappedVars, Delivery!vars, OfferStatus, Sent, Pending

LEMMA PublishMaps ==
  ASSUME TypeOK, TypeOK', DeliveryInv, DeliveryInv',
         NEW s \in Sessions, NEW k \in OfferKinds, PublishOffer(s, k)
  PROVE  Delivery!Next
<1>1. PICK n \in Id : n = Len(stream) + 1 /\ Len(stream) \in Nat
  BY DEF PublishOffer, XAdd, TypeOK, StreamTypeOK
<1>2. Len(stream') = n /\ \A m \in Sent : stream'[m] = stream[m]
  BY <1>1 DEF PublishOffer, XAdd, TypeOK, StreamTypeOK, Sent
<1>3. UNCHANGED <<lastId, pel, acked, answers>>
  BY DEF PublishOffer, XAdd, taskVars
<1>4. OfferStatus(n) = "unsent"
  BY <1>1, StatusFacts
<1>5. \A m \in Id : OfferStatus(m)' = IF m \in {n} THEN "queued" ELSE OfferStatus(m)
  <2>1. lastId \in Nat /\ lastId <= Len(stream)
    BY DEF TypeOK, StreamTypeOK
  <2>2. ASSUME NEW m \in Id, m = n PROVE OfferStatus(m)' = "queued"
    BY <1>1, <1>2, <1>3, <2>1, <2>2 DEF OfferStatus, Sent
  <2>3. ASSUME NEW m \in Id, m # n PROVE OfferStatus(m)' = OfferStatus(m)
    <3>1. m \in Sent' <=> m \in Sent
      BY <1>1, <1>2, <2>3 DEF Sent
    <3>2. QED
      BY <3>1, <1>3 DEF OfferStatus, Pending
  <2>4. QED
    BY <2>2, <2>3
<1>6. Rejectable' = Rejectable \cup {n} \/ Rejectable' = Rejectable
  <2>1. Sent' = Sent \cup {n}
    BY <1>1, <1>2 DEF Sent
  <2>2. QED
    BY <1>2, <2>1 DEF Rejectable
<1>7. Delivery!Send(n)
  BY <1>1, <1>3, <1>4, <1>5, <1>6, MoveStatus DEF Delivery!Send, Rejectable
<1>8. QED
  BY <1>1, <1>7 DEF Delivery!Next

LEMMA DeliverMaps ==
  ASSUME TypeOK, TypeOK', DeliveryInv, DeliveryInv', NEW w \in Workers, Deliver(w)
  PROVE  Delivery!Next
<1> DEFINE new == NewEntries(want[w])
<1>1. want[w] \in Nat /\ lastId \in Nat /\ Len(stream) \in Nat /\ lastId <= Len(stream)
  BY DEF TypeOK, ProcTypeOK, StreamTypeOK
<1>2. /\ UNCHANGED <<stream, acked, answers>>
      /\ lastId' = LastIdAfter(want[w])
      /\ \A m \in Id : pel'[m] = IF m \in new THEN w ELSE pel[m]
  BY DEF Deliver, XReadGroup, PelAfterRead, taskVars
<1>3. \A m \in new : m \in Id /\ OfferStatus(m) = "queued"
  BY <1>1, StatusFacts DEF NewEntries
<1>4. \A m \in Id : OfferStatus(m)' = IF m \in new THEN "pending" ELSE OfferStatus(m)
  <2>1. ASSUME NEW m \in Id, m \in new PROVE OfferStatus(m)' = "pending"
    <3>1. m <= lastId' /\ m \in Sent
      BY <1>1, <1>2, <2>1 DEF NewEntries, LastIdAfter, Sent
    <3>2. m \notin acked
      BY <1>1, <2>1 DEF NewEntries, DeliveryInv
    <3>3. pel'[m] # None
      BY <1>2, <2>1, StreamAssumption DEF StreamAssumption
    <3>4. QED
      BY <1>2, <3>1, <3>2, <3>3 DEF OfferStatus, Pending, Sent
  <2>2. ASSUME NEW m \in Id, m \notin new PROVE OfferStatus(m)' = OfferStatus(m)
    <3>1. pel'[m] = pel[m]
      BY <1>2, <2>2
    <3>2. m \in Sent => (lastId' < m <=> lastId < m) /\ (m <= lastId' <=> m <= lastId)
      BY <1>1, <1>2, <2>2 DEF NewEntries, LastIdAfter, Sent
    <3>3. QED
      BY <1>2, <3>1, <3>2 DEF OfferStatus, Pending, Sent
  <2>3. QED
    BY <2>1, <2>2
<1>5. Delivery!Deliver(new)
  BY <1>2, <1>3, <1>4, MoveStatus DEF Delivery!Deliver, Sent
<1>6. QED
  BY <1>3, <1>5 DEF Delivery!Next

\* The stream forgets what was pending for a consumer that leaves.
LEMMA DelConsumerMaps ==
  ASSUME TypeOK, DeliveryInv, NEW w \in Workers, XGroupDelConsumer(w), UNCHANGED <<acked, answers>>
  PROVE  Delivery!Next
<1> DEFINE gone == {m \in Id : pel[m] = w}
<1>1. w # None
  BY StreamAssumption DEF StreamAssumption
<1>2. UNCHANGED <<stream, lastId, acked, answers>> /\ \A m \in Id : pel'[m] = IF m \in gone THEN None ELSE pel[m]
  BY DEF XGroupDelConsumer
<1>3. \A m \in gone : OfferStatus(m) = "pending"
  BY <1>1, StatusFacts
<1>4. \A m \in Id : OfferStatus(m)' = IF m \in gone THEN "dropped" ELSE OfferStatus(m)
  <2>1. ASSUME NEW m \in Id, m \in gone PROVE OfferStatus(m)' = "dropped"
    <3>1. m \in Sent /\ m <= lastId /\ m \notin acked
      BY <1>1, <2>1 DEF DeliveryInv, TypeOK, StreamTypeOK, Sent
    <3>2. QED
      BY <1>2, <2>1, <3>1 DEF OfferStatus, Pending, Sent, TypeOK, StreamTypeOK
  <2>2. ASSUME NEW m \in Id, m \notin gone PROVE OfferStatus(m)' = OfferStatus(m)
    BY <1>2, <2>2 DEF OfferStatus, Pending, Sent
  <2>3. QED
    BY <2>1, <2>2
<1>5. Delivery!Drop(gone)
  BY <1>2, <1>3, <1>4, MoveStatus DEF Delivery!Drop, Sent
<1>6. QED
  BY <1>5 DEF Delivery!Next

\* A claim changes the consumer of an entry that stays pending.
LEMMA ClaimMaps ==
  ASSUME TypeOK, NEW w \in Workers, NEW m \in Id, XClaim(w, m), UNCHANGED <<acked, answers>>
  PROVE  UNCHANGED Delivery!vars
<1>1. UNCHANGED <<stream, lastId, acked, answers>>
  BY DEF XClaim
<1>2. Pending' = Pending
  BY StreamAssumption DEF StreamAssumption, XClaim, Claimable, Pending, TypeOK, StreamTypeOK
<1>3. QED
  BY <1>1, <1>2 DEF Delivery!vars, OfferStatus, Sent

\* A handler that acknowledges knows the verdict.
LEMMA AcknowledgeMaps ==
  ASSUME TypeOK, DeliveryInv, AckedBehind, NEW m \in Id, step[m] \in {"acking", "badack"},
         Acknowledge(m), UNCHANGED answers
  PROVE  Delivery!Next
<1>1. /\ UNCHANGED <<stream, lastId>> /\ acked' = acked \cup {m}
      /\ \A n \in Id : pel'[n] = IF n = m THEN None ELSE pel[n]
  BY DEF Acknowledge, XAck, TypeOK, StreamTypeOK
<1>2. m \notin acked /\ m <= lastId
  BY DEF AckedBehind, DeliveryInv
<1>3. m \in Sent /\ lastId \in Nat
  BY <1>2 DEF TypeOK, StreamTypeOK, Sent
<1>4. OfferStatus(m) \in {"pending", "dropped"}
  BY <1>2, StatusFacts
<1>5. m \in Rejectable \/ answers[m] # 0
  BY <1>3 DEF DeliveryInv, Rejectable
<1>6. \A n \in Id : OfferStatus(n)' = IF n \in {m} THEN "acked" ELSE OfferStatus(n)
  <2>1. OfferStatus(m)' = "acked"
    BY <1>1, <1>2, <1>3 DEF OfferStatus, Sent
  <2>2. ASSUME NEW n \in Id, n # m PROVE OfferStatus(n)' = OfferStatus(n)
    BY <1>1, <2>2 DEF OfferStatus, Pending, Sent
  <2>3. QED
    BY <2>1, <2>2
<1>7. Delivery!Settle(m)
  BY <1>1, <1>4, <1>5, <1>6, MoveStatus DEF Delivery!Settle, Rejectable, Sent
<1>8. QED
  BY <1>7 DEF Delivery!Next

\* A handler that publishes does so for an offer that has no answer yet.
LEMMA AnswerMaps ==
  ASSUME TypeOK, DeliveryInv, AckedBehind, NEW m \in Id, step[m] = "answering",
         NEW n \in {1, 2}, AddAnswers(m, n), UNCHANGED <<stream, lastId, pel, acked>>
  PROVE  Delivery!Next
<1>1. answers[m] = 0 /\ m <= lastId /\ m \notin acked
  BY DEF DeliveryInv, AckedBehind
<1>2. OfferStatus(m) \in {"pending", "dropped"}
  BY <1>1, StatusFacts
<1>3. answers' = [answers EXCEPT ![m] = n]
  BY <1>1 DEF AddAnswers, TypeOK, TaskTypeOK
<1>4. UNCHANGED <<Status, Rejectable>>
  BY DEF Status, Rejectable, OfferStatus, Pending, Sent
<1>5. Delivery!Answer(m)
  BY <1>1, <1>2, <1>3, <1>4 DEF Delivery!Answer, Status, Rejectable
<1>6. QED
  BY <1>5 DEF Delivery!Next

LEMMA HandlerMaps ==
  ASSUME TypeOK, DeliveryInv, AckedBehind, NEW m \in Id, HandlerStep(m)
  PROVE  [Delivery!Next]_Delivery!vars
<1> USE DEF streamVars, procVars, taskVars
<1>1. CASE \/ Acquire(m) \/ BuildFails(m) \/ CreatePeer(m) \/ SetRemote(m) \/ CreateAnswer(m)
           \/ SetLocal(m) \/ OfferMalformed(m) \/ NegotiationFails(m) \/ CloseOnError(m) \/ WaitEnds(m)
  BY <1>1, MappedFrame
     DEF mappedVars, Acquire, BuildFails, CreatePeer, SetRemote, CreateAnswer, SetLocal,
        OfferMalformed, NegotiationFails, AfterError, CloseOnError, WaitEnds, Finish, SetStep
<1>2. CASE PublishAnswer(m)
  BY <1>2, AnswerMaps DEF PublishAnswer
<1>3. CASE PublishFails(m)
  <2>1. PICK n \in 0..2 : AddAnswers(m, n)
    BY <1>3 DEF PublishFails
  <2>2. CASE n = 0
    <3>1. answers' = answers
      BY <2>1, <2>2 DEF AddAnswers, TypeOK, TaskTypeOK
    <3>2. QED
      BY <1>3, <3>1, MappedFrame DEF PublishFails, mappedVars
  <2>3. CASE n # 0
    BY <1>3, <2>1, <2>3, AnswerMaps DEF PublishFails
  <2>4. QED
    BY <2>2, <2>3
<1>4. CASE Ack(m)
  BY <1>4, AcknowledgeMaps DEF Ack
<1>5. CASE AckFails(m)
  BY <1>5, AcknowledgeMaps, MappedFrame DEF AckFails, mappedVars
<1>6. CASE AckMalformed(m)
  BY <1>6, AcknowledgeMaps DEF AckMalformed
<1>7. CASE AckMalformedFails(m)
  BY <1>7, AcknowledgeMaps, MappedFrame DEF AckMalformedFails, mappedVars
<1>8. QED
  BY <1>1, <1>2, <1>3, <1>4, <1>5, <1>6, <1>7 DEF HandlerStep

LEMMA WorkerMaps ==
  ASSUME TypeOK, TypeOK', DeliveryInv, DeliveryInv', NEW w \in Workers,
         StartStep(w) \/ LoopStep(w) \/ StopStep(w)
  PROVE  [Delivery!Next]_Delivery!vars
<1> USE DEF streamVars, taskVars
<1>1. CASE Deliver(w)
  BY <1>1, DeliverMaps
<1>2. CASE ReclaimNext(w)
  <2>1. PICK m \in snapshot[w] : XClaim(w, m)
    BY <1>2 DEF ReclaimNext
  <2>2. m \in Id
    BY <2>1 DEF TypeOK, ProcTypeOK
  <2>3. QED
    BY <1>2, <2>1, <2>2, ClaimMaps DEF ReclaimNext
<1>3. CASE LeaveGroup(w)
  BY <1>3, DelConsumerMaps, MappedFrame DEF LeaveGroup, mappedVars
<1>4. CASE ~(Deliver(w) \/ ReclaimNext(w) \/ LeaveGroup(w))
  <2>1. UNCHANGED mappedVars
    BY <1>4 DEF mappedVars, StartStep, LoopStep, StopStep, EnsureGroup, EnsureGroupFails,
         Register, IssueRead, ReadTimesOut, ReadFails, Spawn, ReclaimScan, ReclaimFails,
         Sigterm, Crash, LeaveLoop, Drained, ShutdownAborts, Deregister, DeregisterFails,
         ProcessEnds, XGroupCreate, SAdd
  <2>2. QED
    BY <2>1, MappedFrame
<1>5. QED
  BY <1>1, <1>2, <1>3, <1>4

LEMMA StepMaps ==
  ASSUME TypeOK, TypeOK', DeliveryInv, DeliveryInv', AckedBehind, [Next]_vars
  PROVE  [Delivery!Next]_Delivery!vars
<1>1. CASE UNCHANGED vars
  BY <1>1, MappedFrame DEF mappedVars, vars, streamVars, taskVars
<1>2. ASSUME NEW m \in Id, PeerStep(m) \/ PassTime(m) PROVE UNCHANGED Delivery!vars
  BY <1>2, MappedFrame DEF mappedVars, PeerStep, PassTime, BecomeIdle, ConnectionFails,
     PipelineCloses, CloseStep, TransportStops, PipelineClosed, CloseTask, OnTerminated, streamVars,
     taskVars
<1>3. QED
  BY <1>1, <1>2, PublishMaps, WorkerMaps, HandlerMaps DEF Next

LEMMA InitMaps == Init => Delivery!Init
<1> SUFFICES ASSUME Init PROVE Delivery!Init
    OBVIOUS
<1>1. Sent = {}
  BY DEF Init, StreamInit, Sent
<1>2. \A m \in Id : OfferStatus(m) = "unsent"
  BY <1>1 DEF OfferStatus
<1>3. QED
  BY <1>1, <1>2 DEF Init, Delivery!Init

\* The worker tier keeps OfferDelivery's promise in every behaviour.
THEOREM WorkersImplementDelivery == Spec => ImplementsDelivery
<1>1. QED
  BY InitMaps, StepMaps, TypeCorrect, DeliveryCorrect, AckedBehindAlways, PTL
     DEF Spec, ImplementsDelivery, Delivery!Spec

----------------------------------------------------------------------------
HIDE DEF Offer, Kinds, RegistryKeys, DeliveredOnce, AnswerFollowsStep, AckedSettled

----------------------------------------------------------------------------
(* Shutdown. *)

\* Only a worker in its loop has a reply, and handlers outlive the loop only
\* into the drain.
ShutdownInv ==
  \A w \in Workers :
    /\ phase[w] # "loop" => batch[w] = {}
    /\ phase[w] \notin {"loop", "drain"} => \A m \in Hosted(w) : step[m] \notin InFlight

LEMMA InitShutdown == Init => ShutdownInv
BY DEF Init, ShutdownInv, Hosted

\* Steps that leave every worker where it is and start no handler.
LEMMA ShutdownFrame ==
  ASSUME ShutdownInv, UNCHANGED <<phase, batch, host>>,
         \A m \in Id : step'[m] \in InFlight => step[m] \in InFlight
  PROVE  ShutdownInv'
BY DEF ShutdownInv, Hosted

LEMMA HandlerShutdown ==
  ASSUME TypeOK, ShutdownInv, NEW n \in Id, HandlerStep(n)
  PROVE  ShutdownInv'
<1>1. UNCHANGED <<phase, batch, host>>
  BY DEF HandlerStep, Acquire, BuildFails, CreatePeer, SetRemote, CreateAnswer, SetLocal,
     OfferMalformed, NegotiationFails, AfterError, PublishAnswer, PublishFails,
     Ack, AckFails, AckMalformed, AckMalformedFails, CloseOnError, WaitEnds, procVars
<1>2. step[n] \in InFlight /\ \A m \in Id : m # n => step'[m] = step[m]
  BY DEF HandlerStep, Acquire, BuildFails, CreatePeer, SetRemote, CreateAnswer, SetLocal,
     OfferMalformed, NegotiationFails, AfterError, PublishAnswer, PublishFails,
     Ack, AckFails, AckMalformed, AckMalformedFails, CloseOnError, WaitEnds, Finish, SetStep,
     TypeOK, TaskTypeOK
<1>3. QED
  BY <1>1, <1>2, ShutdownFrame

LEMMA ProcessEndsShutdown ==
  ASSUME TypeOK, ShutdownInv, NEW w \in Workers, NEW how \in Ended, ProcessEnds(w, how)
  PROVE  ShutdownInv'
<1>1. /\ phase' = [phase EXCEPT ![w] = how] /\ batch' = [batch EXCEPT ![w] = {}] /\ host' = host
      /\ \A m \in Id : step'[m] = IF m \in Hosted(w) /\ step[m] \in InFlight THEN "lost" ELSE step[m]
  BY DEF ProcessEnds
<1>2. QED
  BY <1>1 DEF ShutdownInv, Hosted, TypeOK, ProcTypeOK, TaskTypeOK

LEMMA WorkerShutdown ==
  ASSUME TypeOK, ShutdownInv, NEW w \in Workers, StartStep(w) \/ LoopStep(w) \/ StopStep(w)
  PROVE  ShutdownInv'
<1> USE DEF taskVars
<1>1. CASE EnsureGroup(w) \/ EnsureGroupFails(w)
  BY <1>1 DEF EnsureGroup, EnsureGroupFails, ShutdownInv, Hosted, TypeOK, ProcTypeOK
<1>2. CASE Register(w)
  BY <1>2 DEF Register, ShutdownInv, Hosted, TypeOK, ProcTypeOK
<1>3. CASE Deliver(w) \/ ReadFails(w)
  BY <1>3 DEF Deliver, ReadFails, ShutdownInv, Hosted, TypeOK, ProcTypeOK
<1>4. CASE Spawn(w)
  BY <1>4 DEF Spawn, ReplyLeft, ShutdownInv, Hosted, TypeOK, ProcTypeOK, TaskTypeOK
<1>5. CASE \/ IssueRead(w) \/ ReadTimesOut(w) \/ ReclaimScan(w) \/ ReclaimNext(w)
           \/ ReclaimFails(w) \/ Sigterm(w)
  BY <1>5, ShutdownFrame
     DEF IssueRead, ReadTimesOut, ReclaimScan, ReclaimNext, ReclaimFails, Sigterm
<1>6. CASE LeaveLoop(w)
  BY <1>6 DEF LeaveLoop, ShutdownInv, Hosted, TypeOK, ProcTypeOK
<1>7. CASE Drained(w) \/ LeaveGroup(w)
  BY <1>7 DEF Drained, HandlersEnded, LeaveGroup, ShutdownInv, Hosted, TypeOK, ProcTypeOK
<1>8. CASE Crash(w) \/ ShutdownAborts(w) \/ Deregister(w) \/ DeregisterFails(w)
  BY <1>8, ProcessEndsShutdown DEF Crash, ShutdownAborts, Deregister, DeregisterFails
<1>9. QED
  BY <1>1, <1>2, <1>3, <1>4, <1>5, <1>6, <1>7, <1>8 DEF StartStep, LoopStep, StopStep

LEMMA ShutdownStep == TypeOK /\ ShutdownInv /\ [Next]_vars => ShutdownInv'
<1> SUFFICES ASSUME TypeOK, ShutdownInv, [Next]_vars PROVE ShutdownInv'
    OBVIOUS
<1>1. CASE UNCHANGED vars
  BY <1>1, ShutdownFrame DEF vars, procVars, taskVars
<1>2. ASSUME NEW m \in Id, PeerStep(m) \/ PassTime(m) PROVE ShutdownInv'
  BY <1>2, ShutdownFrame DEF PeerStep, PassTime, ConnectionFails, PipelineCloses, CloseStep,
     TransportStops, PipelineClosed, CloseTask,
     OnTerminated, procVars, taskVars
<1>3. ASSUME NEW s \in Sessions, NEW k \in OfferKinds, PublishOffer(s, k) PROVE ShutdownInv'
  BY <1>3, ShutdownFrame DEF PublishOffer, procVars, taskVars
<1>4. QED
  BY <1>1, <1>2, <1>3, HandlerShutdown, WorkerShutdown DEF Next

\* shutdown() runs after the last handler task of its worker.
THEOREM ShutdownAfterHandlersAlways == Spec => []ShutdownAfterHandlers
<1>1. ShutdownInv => ShutdownAfterHandlers
  BY DEF ShutdownInv, ShutdownAfterHandlers
<1>2. QED
  BY <1>1, InitShutdown, ShutdownStep, TypeCorrect, PTL DEF Spec

----------------------------------------------------------------------------
(* active_sessions. *)

\* An entry is filed under its offer's worker and session.
EntryIsFiled ==
  \A w \in Workers, s \in Sessions : active[w][s] # 0 =>
    LET m == active[w][s]
    IN  m \in Id /\ step[m] # "none" /\ host[m] = w /\ stream[m].session = s

SessionInv == EntryIsFiled /\ NoZombieSession

LEMMA InitSession == Init => SessionInv
BY DEF Init, SessionInv, EntryIsFiled, NoZombieSession

\* A step that leaves the peer usable, or as it was, or with an event to handle.
Quiet(m) ==
  /\ pc'[m] = pc[m] \/ pc'[m] \in {"new", "open", "linked", "closing"} \/ events'[m] # {}
  /\ events'[m] = events[m] \/ events'[m] # {}

\* Steps that enter nothing and handle no event.
LEMMA SessionFrame ==
  ASSUME TypeOK, SessionInv,
         \A w \in Workers, s \in Sessions : active'[w][s] \in {0, active[w][s]},
         \A w \in Workers, s \in Sessions : active'[w][s] # 0 =>
           LET m == active[w][s]
           IN  /\ step'[m] # "none" /\ host'[m] = host[m]
               /\ stream'[m].session = stream[m].session
               /\ Quiet(m)
  PROVE  SessionInv'
<1> SUFFICES ASSUME NEW w \in Workers, NEW s \in Sessions, active'[w][s] # 0
             PROVE  LET m == active'[w][s]
                    IN  /\ m \in Id /\ step'[m] # "none" /\ host'[m] = w
                        /\ stream'[m].session = s
                        /\ \/ pc'[m] \in {"new", "open", "linked", "closing"}
                           \/ events'[m] # {}
    BY DEF SessionInv, EntryIsFiled, NoZombieSession
<1>1. active'[w][s] = active[w][s]
  OBVIOUS
<1>2. QED
  BY <1>1 DEF SessionInv, EntryIsFiled, NoZombieSession, Quiet

\* A connection that changes state leaves an event.
LEMMA ClosePcEvents ==
  ASSUME TypeOK, NEW m \in Id, ClosePc(m)
  PROVE  \A n \in Id : Quiet(n)
BY DEF ClosePc, Quiet, TypeOK, PeerTypeOK

LEMMA HandlerSession ==
  ASSUME TypeOK, DeliveryInv, SessionInv, NEW m \in Id, HandlerStep(m)
  PROVE  SessionInv'
<1> USE DEF streamVars, procVars, taskVars, peerVars
<1>1. step[m] # "none" /\ step'[m] # "none" /\ host' = host /\ stream' = stream
      /\ \A n \in Id : n # m => step'[n] = step[n]
  BY DEF HandlerStep, Acquire, BuildFails, CreatePeer, SetRemote, CreateAnswer, SetLocal,
     OfferMalformed, NegotiationFails, AfterError, PublishAnswer, PublishFails,
     Ack, AckFails, AckMalformed, AckMalformedFails, CloseOnError, WaitEnds, Finish, SetStep,
     Acknowledge, XAck, TypeOK, TaskTypeOK
<1>2. \A w \in Workers, s \in Sessions : active[w][s] # 0 =>
        active[w][s] \in Id /\ step[active[w][s]] # "none"
  BY DEF SessionInv, EntryIsFiled
<1>3. CASE CreatePeer(m)
  <2>1. host[m] \in Workers /\ m \in Sent
    BY <1>1 DEF DeliveryInv, DeliveredOnce, TypeOK, StreamTypeOK, Sent
  <2>2. \A w \in Workers, s \in Sessions :
          active'[w][s] = IF w = host[m] /\ s = stream[m].session THEN m ELSE active[w][s]
    BY <1>3, <2>1 DEF CreatePeer, EnterSession, TypeOK, PeerTypeOK
  <2>3. events' = events /\ \A n \in Id : pc'[n] = IF n = m THEN "new" ELSE pc[n]
    BY <1>3 DEF CreatePeer, TypeOK, PeerTypeOK
  <2>4. QED
    BY <1>1, <1>2, <2>2, <2>3 DEF SessionInv, EntryIsFiled, NoZombieSession
<1>4. CASE CloseOnError(m) \/ SetRemote(m) \/ SetLocal(m)
  <2>1. active' = active
    BY <1>4 DEF CloseOnError, SetRemote, SetLocal
  <2>2. \A n \in Id : Quiet(n)
    <3>1. CASE CloseOnError(m)
      BY <3>1, ClosePcEvents DEF CloseOnError, Quiet
    <3>2. CASE SetRemote(m) \/ SetLocal(m)
      BY <3>2 DEF SetRemote, SetLocal, Quiet, TypeOK, PeerTypeOK
    <3>3. QED
      BY <1>4, <3>1, <3>2
  <2>3. QED
    BY <1>1, <1>2, <2>1, <2>2, SessionFrame
<1>5. CASE ~CreatePeer(m) /\ ~(CloseOnError(m) \/ SetRemote(m) \/ SetLocal(m))
  <2>1. UNCHANGED <<active, pc, events>>
    BY <1>5 DEF HandlerStep, Acquire, BuildFails, CreateAnswer, OfferMalformed, NegotiationFails,
     PublishAnswer, PublishFails, Ack, AckFails, AckMalformed, AckMalformedFails, WaitEnds
  <2>2. QED
    BY <1>1, <1>2, <2>1, SessionFrame DEF Quiet
<1>6. QED
  BY <1>3, <1>4, <1>5

LEMMA PeerSessionInv ==
  ASSUME TypeOK, DeliveryInv, SessionInv, NEW m \in Id, PeerStep(m)
  PROVE  SessionInv'
<1> USE DEF streamVars, procVars, taskVars
<1>1. UNCHANGED <<step, host, stream>>
  BY DEF PeerStep, ConnectionFails, PipelineCloses, CloseStep, TransportStops, PipelineClosed,
     CloseTask, OnTerminated
<1>2. \A w \in Workers, s \in Sessions : active[w][s] # 0 =>
        active[w][s] \in Id /\ step[active[w][s]] # "none"
  BY DEF SessionInv, EntryIsFiled
<1>3. CASE ConnectionFails(m) \/ PipelineCloses(m) \/ TransportStops(m) \/ CloseTask(m)
  <2>1. active' = active
    BY <1>3 DEF ConnectionFails, PipelineCloses, TransportStops, CloseTask
  <2>2. \A n \in Id : Quiet(n)
    <3>1. CASE ConnectionFails(m) \/ TransportStops(m)
      <4>1. events'[m] # {} /\ \A n \in Id : n # m => pc'[n] = pc[n] /\ events'[n] = events[n]
        BY <3>1 DEF ConnectionFails, TransportStops, TypeOK, PeerTypeOK
      <4>2. QED
        BY <4>1 DEF Quiet
    <3>2. CASE PipelineCloses(m)
      BY <3>2 DEF PipelineCloses, Quiet, TypeOK, PeerTypeOK
    <3>3. CASE CloseTask(m)
      BY <3>3, ClosePcEvents DEF CloseTask
    <3>4. QED
      BY <1>3, <3>1, <3>2, <3>3
  <2>3. QED
    BY <1>1, <1>2, <2>1, <2>2, SessionFrame
<1>6. CASE PipelineClosed(m)
  <2>1. UNCHANGED <<active, events>> /\ \A n \in Id : n # m => pc'[n] = pc[n]
    BY <1>6 DEF PipelineClosed, TypeOK, PeerTypeOK
  <2>2. \A w \in Workers, s \in Sessions : active[w][s] = m => events[m] # {}
    BY <1>6 DEF PipelineClosed, SessionInv, NoZombieSession
  <2>3. QED
    BY <1>1, <1>2, <2>1, <2>2, SessionFrame DEF Quiet
<1>4. ASSUME NEW e \in {"failed", "closed"}, OnTerminated(m, e) PROVE SessionInv'
  <2>1. \A w \in Workers, s \in Sessions :
          active'[w][s] = IF w = host[m] /\ s = stream[m].session THEN 0 ELSE active[w][s]
    BY <1>4 DEF OnTerminated, DropSession, TypeOK, PeerTypeOK
  <2>2. \A n \in Id : n # m => pc'[n] = pc[n] /\ events'[n] = events[n]
    BY <1>4 DEF OnTerminated, CutClose, TypeOK, PeerTypeOK
  <2>3. \A w \in Workers, s \in Sessions : active'[w][s] # 0 => active[w][s] # m
    BY <2>1 DEF SessionInv, EntryIsFiled
  <2>4. QED
    BY <1>1, <1>2, <2>1, <2>2, <2>3, SessionFrame DEF Quiet
<1>5. QED
  BY <1>3, <1>4, <1>6 DEF PeerStep, CloseStep

LEMMA ProcessEndsSession ==
  ASSUME TypeOK, SessionInv, NEW v \in Workers, NEW how, ProcessEnds(v, how), stream' = stream
  PROVE  SessionInv'
<1>1. \A w \in Workers, s \in Sessions : active'[w][s] = IF w = v THEN 0 ELSE active[w][s]
  BY DEF ProcessEnds, TypeOK, PeerTypeOK
<1>2. /\ host' = host
      /\ \A n \in Id : step'[n] = step[n] \/ step'[n] = "lost"
      /\ \A n \in Id : host[n] # v => pc'[n] = pc[n] /\ events'[n] = events[n]
  BY DEF ProcessEnds, Hosted
<1>3. \A w \in Workers, s \in Sessions : active[w][s] # 0 =>
        active[w][s] \in Id /\ step[active[w][s]] # "none" /\ host[active[w][s]] = w
  BY DEF SessionInv, EntryIsFiled
<1>4. QED
  BY <1>1, <1>2, <1>3, SessionFrame DEF Quiet

LEMMA WorkerSession ==
  ASSUME TypeOK, DeliveryInv, SessionInv, NEW w \in Workers,
         StartStep(w) \/ LoopStep(w) \/ StopStep(w)
  PROVE  SessionInv'
<1> USE DEF streamVars, taskVars, peerVars
<1>1. \A v \in Workers, s \in Sessions : active[v][s] # 0 =>
        active[v][s] \in Id /\ step[active[v][s]] # "none"
  BY DEF SessionInv, EntryIsFiled
<1>2. CASE Crash(w) \/ ShutdownAborts(w) \/ Deregister(w) \/ DeregisterFails(w)
  BY <1>2, ProcessEndsSession DEF Crash, ShutdownAborts, Deregister, DeregisterFails
<1>3. CASE Spawn(w)
  <2>1. \A n \in Id : step[n] # "none" => step'[n] = step[n] /\ host'[n] = host[n]
    BY <1>3 DEF Spawn, DeliveryInv, DeliveredOnce
  <2>2. UNCHANGED <<active, pc, events, stream>>
    BY <1>3 DEF Spawn
  <2>3. QED
    BY <1>1, <2>1, <2>2, SessionFrame DEF Quiet
<1>4. CASE ~(Crash(w) \/ ShutdownAborts(w) \/ Deregister(w) \/ DeregisterFails(w) \/ Spawn(w))
  <2>1. UNCHANGED <<active, pc, events, stream, step, host>>
    BY <1>4 DEF StartStep, LoopStep, StopStep, EnsureGroup, EnsureGroupFails, Register, IssueRead,
       Deliver, ReadTimesOut, ReadFails, ReclaimScan, ReclaimNext, ReclaimFails, Sigterm,
       LeaveLoop, Drained, LeaveGroup, XGroupCreate, SAdd, XReadGroup, XClaim, XGroupDelConsumer
  <2>2. QED
    BY <1>1, <2>1, SessionFrame DEF Quiet
<1>5. QED
  BY <1>2, <1>3, <1>4

LEMMA SessionStep == TypeOK /\ DeliveryInv /\ SessionInv /\ [Next]_vars => SessionInv'
<1> SUFFICES ASSUME TypeOK, DeliveryInv, SessionInv, [Next]_vars PROVE SessionInv'
    OBVIOUS
<1>1. \A w \in Workers, s \in Sessions : active[w][s] # 0 =>
        active[w][s] \in Id /\ step[active[w][s]] # "none"
  BY DEF SessionInv, EntryIsFiled
<1>2. CASE UNCHANGED vars
  BY <1>1, <1>2, SessionFrame DEF Quiet, vars, streamVars, taskVars, peerVars
<1>3. ASSUME NEW m \in Id, PassTime(m) PROVE SessionInv'
  BY <1>1, <1>3, SessionFrame DEF Quiet, PassTime, BecomeIdle, taskVars, peerVars
<1>4. ASSUME NEW s \in Sessions, NEW k \in OfferKinds, PublishOffer(s, k) PROVE SessionInv'
  <2>1. \A m \in Id : m <= lastId => stream'[m] = stream[m]
    BY <1>4 DEF PublishOffer, XAdd, TypeOK, StreamTypeOK
  <2>2. UNCHANGED <<active, pc, events, step, host>>
    BY <1>4 DEF PublishOffer, taskVars, peerVars
  <2>3. \A m \in Id : step[m] # "none" => m <= lastId
    BY DEF DeliveryInv, DeliveredOnce
  <2>4. QED
    BY <1>1, <2>1, <2>2, <2>3, SessionFrame DEF Quiet
<1>5. QED
  BY <1>2, <1>3, <1>4, HandlerSession, PeerSessionInv, WorkerSession DEF Next

\* active_sessions holds no peer that is closed and whose events have run.
THEOREM NoZombieSessionAlways == Spec => []NoZombieSession
<1>1. SessionInv => NoZombieSession
  BY DEF SessionInv
<1>2. QED
  BY <1>1, InitSession, SessionStep, TypeCorrect, DeliveryCorrect, PTL DEF Spec

----------------------------------------------------------------------------
(* The semaphore. *)

Holders(w) == {m \in Hosted(w) : step[m] \in Holding}

SlotsInv ==
  \A w \in Workers : phase[w] \notin Ended =>
    permits[w] + Cardinality(Holders(w)) = MaxConcurrent

LEMMA HoldersFinite ==
  ASSUME NEW w
  PROVE  IsFiniteSet(Holders(w)) /\ Cardinality(Holders(w)) \in Nat
<1>1. IsFiniteSet(Id)
  BY FS_Interval, StreamAssumption DEF StreamAssumption
<1>2. Holders(w) \subseteq Id
  BY DEF Holders, Hosted
<1>3. QED
  BY <1>1, <1>2, FS_Subset, FS_CardinalityType

LEMMA InitSlots == Init => SlotsInv
<1> SUFFICES ASSUME Init, NEW w \in Workers PROVE permits[w] + Cardinality(Holders(w)) = MaxConcurrent
    BY DEF SlotsInv
<1>1. Holders(w) = {}
  BY DEF Init, Holders, Hosted
<1>2. permits[w] = MaxConcurrent
  BY DEF Init
<1>3. QED
  BY <1>1, <1>2, FS_EmptySet, WorkerAssumption DEF WorkerAssumption

\* Steps that leave the semaphore and its holders alone, for a worker that
\* does not end.
LEMMA SlotsFrame ==
  ASSUME SlotsInv,
         \A w \in Workers : phase'[w] \notin Ended => /\ phase[w] \notin Ended
                                                      /\ permits'[w] = permits[w]
                                                      /\ Holders(w)' = Holders(w)
  PROVE  SlotsInv'
BY DEF SlotsInv

LEMMA AcquireSlots ==
  ASSUME TypeOK, SlotsInv, NEW m \in Id, Acquire(m)
  PROVE  SlotsInv'
<1> SUFFICES ASSUME NEW w \in Workers, phase'[w] \notin Ended
             PROVE  permits'[w] + Cardinality(Holders(w)') = MaxConcurrent
    BY DEF SlotsInv
<1>1. /\ permits[w] + Cardinality(Holders(w)) = MaxConcurrent
      /\ permits[w] \in Nat /\ Cardinality(Holders(w)) \in Nat /\ IsFiniteSet(Holders(w))
  BY HoldersFinite DEF Acquire, procVars, SlotsInv, TypeOK, TaskTypeOK
<1>2. \A n \in Id : step'[n] = IF n = m THEN "building" ELSE step[n]
  BY DEF Acquire, SetStep, TypeOK, TaskTypeOK
<1>3. step[m] = "spawned" /\ host' = host
  BY DEF Acquire
<1>4. CASE w = host[m]
  <2>1. permits'[w] = permits[w] - 1
    BY <1>4 DEF Acquire, TypeOK, TaskTypeOK
  <2>2. Holders(w)' = Holders(w) \cup {m} /\ m \notin Holders(w)
    BY <1>2, <1>3, <1>4 DEF Holders, Hosted
  <2>3. Cardinality(Holders(w)') = Cardinality(Holders(w)) + 1
    BY <1>1, <2>2, FS_AddElement
  <2>4. QED
    BY <1>1, <2>1, <2>3, WorkerAssumption DEF WorkerAssumption
<1>5. CASE w # host[m]
  <2>1. permits'[w] = permits[w]
    BY <1>5 DEF Acquire, TypeOK, TaskTypeOK
  <2>2. Holders(w)' = Holders(w)
    BY <1>2, <1>3, <1>5 DEF Holders, Hosted
  <2>3. QED
    BY <1>1, <2>1, <2>2
<1>6. QED
  BY <1>4, <1>5

LEMMA FinishSlots ==
  ASSUME TypeOK, SlotsInv, NEW m \in Id, step[m] \in Holding, Finish(m), UNCHANGED <<phase, host>>
  PROVE  SlotsInv'
<1> SUFFICES ASSUME NEW w \in Workers, phase'[w] \notin Ended
             PROVE  permits'[w] + Cardinality(Holders(w)') = MaxConcurrent
    BY DEF SlotsInv
<1>1. /\ permits[w] + Cardinality(Holders(w)) = MaxConcurrent
      /\ permits[w] \in Nat /\ Cardinality(Holders(w)) \in Nat /\ IsFiniteSet(Holders(w))
  BY HoldersFinite DEF SlotsInv, TypeOK, TaskTypeOK
<1>2. \A n \in Id : step'[n] = IF n = m THEN "done" ELSE step[n]
  BY DEF Finish, SetStep, TypeOK, TaskTypeOK
<1>3. CASE w = host[m]
  <2>1. permits'[w] = permits[w] + 1
    BY <1>3 DEF Finish, TypeOK, TaskTypeOK
  <2>2. Holders(w)' = Holders(w) \ {m} /\ m \in Holders(w)
    BY <1>2, <1>3 DEF Holders, Hosted
  <2>3. Cardinality(Holders(w)') = Cardinality(Holders(w)) - 1
    BY <1>1, <2>2, FS_RemoveElement
  <2>4. QED
    BY <1>1, <2>1, <2>3, WorkerAssumption DEF WorkerAssumption
<1>4. CASE w # host[m]
  <2>1. permits'[w] = permits[w]
    BY <1>4 DEF Finish, TypeOK, TaskTypeOK
  <2>2. Holders(w)' = Holders(w)
    BY <1>2, <1>4 DEF Holders, Hosted
  <2>3. QED
    BY <1>1, <2>1, <2>2
<1>5. QED
  BY <1>3, <1>4

\* A handler that moves on inside "async with semaphore".
LEMMA MoveSlots ==
  ASSUME TypeOK, SlotsInv, NEW m \in Id, NEW q \in Holding, step[m] \in Holding, SetStep(m, q),
         UNCHANGED <<phase, host, permits>>
  PROVE  SlotsInv'
<1>1. \A n \in Id : step'[n] = IF n = m THEN q ELSE step[n]
  BY DEF SetStep, TypeOK, TaskTypeOK
<1>2. \A w \in Workers : Holders(w)' = Holders(w)
  BY <1>1 DEF Holders, Hosted
<1>3. QED
  BY <1>2, SlotsFrame

LEMMA HandlerSlots ==
  ASSUME TypeOK, SlotsInv, NEW m \in Id, HandlerStep(m)
  PROVE  SlotsInv'
<1> USE DEF procVars
<1>1. CASE Acquire(m)
  BY <1>1, AcquireSlots
<1>2. CASE BuildFails(m) \/ Ack(m) \/ AckMalformedFails(m) \/ CloseOnError(m) \/ WaitEnds(m)
  BY <1>2, FinishSlots, MoveSlots DEF BuildFails, Ack, AckMalformedFails, CloseOnError, WaitEnds
<1>3. CASE CreatePeer(m) \/ PublishAnswer(m) \/ PublishFails(m) \/ AckFails(m) \/ AckMalformed(m)
  BY <1>3, MoveSlots DEF CreatePeer, PublishAnswer, PublishFails, AckFails, AckMalformed
<1>4. CASE SetRemote(m) \/ CreateAnswer(m) \/ SetLocal(m) \/ OfferMalformed(m) \/ NegotiationFails(m)
  BY <1>4, MoveSlots DEF SetRemote, CreateAnswer, SetLocal, OfferMalformed, NegotiationFails, AfterError
<1>5. QED
  BY <1>1, <1>2, <1>3, <1>4 DEF HandlerStep

LEMMA ProcessEndsSlots ==
  ASSUME TypeOK, SlotsInv, NEW w \in Workers, NEW how \in Ended, ProcessEnds(w, how)
  PROVE  SlotsInv'
<1>1. /\ \A v \in Workers : phase'[v] = IF v = w THEN how ELSE phase[v]
      /\ UNCHANGED <<permits, host>>
      /\ \A m \in Id : host[m] # w => step'[m] = step[m]
  BY DEF ProcessEnds, Hosted, TypeOK, ProcTypeOK
<1>2. \A v \in Workers : v # w => Holders(v)' = Holders(v)
  BY <1>1 DEF Holders, Hosted
<1>3. QED
  BY <1>1, <1>2, SlotsFrame

LEMMA WorkerSlots ==
  ASSUME TypeOK, DeliveryInv, SlotsInv, NEW w \in Workers,
         StartStep(w) \/ LoopStep(w) \/ StopStep(w)
  PROVE  SlotsInv'
<1> USE DEF taskVars
<1>1. CASE Crash(w) \/ ShutdownAborts(w) \/ Deregister(w) \/ DeregisterFails(w)
  BY <1>1, ProcessEndsSlots DEF Crash, ShutdownAborts, Deregister, DeregisterFails
<1>2. CASE Spawn(w)
  <2>1. \A m \in Id : \/ host'[m] = host[m] /\ step'[m] = step[m]
                      \/ step[m] = "none" /\ step'[m] = "spawned"
    BY <1>2 DEF Spawn, DeliveryInv, DeliveredOnce
  <2>2. \A v \in Workers : Holders(v)' = Holders(v)
    BY <2>1 DEF Holders, Hosted
  <2>3. QED
    BY <1>2, <2>2, SlotsFrame DEF Spawn
<1>3. CASE ~(Crash(w) \/ ShutdownAborts(w) \/ Deregister(w) \/ DeregisterFails(w) \/ Spawn(w))
  <2>1. UNCHANGED <<permits, host, step>>
    BY <1>3 DEF StartStep, LoopStep, StopStep, EnsureGroup, EnsureGroupFails, Register, IssueRead,
       Deliver, ReadTimesOut, ReadFails, ReclaimScan, ReclaimNext, ReclaimFails, Sigterm,
       LeaveLoop, Drained, LeaveGroup
  <2>2. \A v \in Workers : phase'[v] \notin Ended => phase[v] \notin Ended
    BY <1>3 DEF StartStep, LoopStep, StopStep, EnsureGroup, EnsureGroupFails, Register, IssueRead,
       Deliver, ReadTimesOut, ReadFails, ReclaimScan, ReclaimNext, ReclaimFails, Sigterm,
       LeaveLoop, Drained, LeaveGroup, TypeOK, ProcTypeOK
  <2>3. \A v \in Workers : Holders(v)' = Holders(v)
    BY <2>1 DEF Holders, Hosted
  <2>4. QED
    BY <2>1, <2>2, <2>3, SlotsFrame
<1>4. QED
  BY <1>1, <1>2, <1>3

LEMMA SlotsStep == TypeOK /\ DeliveryInv /\ SlotsInv /\ [Next]_vars => SlotsInv'
<1> SUFFICES ASSUME TypeOK, DeliveryInv, SlotsInv, [Next]_vars PROVE SlotsInv'
    OBVIOUS
<1>1. ASSUME UNCHANGED <<permits, host, step, phase>> PROVE SlotsInv'
  <2>1. \A v \in Workers : Holders(v)' = Holders(v)
    BY <1>1 DEF Holders, Hosted
  <2>2. QED
    BY <1>1, <2>1, SlotsFrame
<1>2. CASE UNCHANGED vars
  BY <1>1, <1>2 DEF vars, procVars, taskVars
<1>3. ASSUME NEW m \in Id, PeerStep(m) \/ PassTime(m) PROVE SlotsInv'
  BY <1>1, <1>3 DEF PeerStep, PassTime, ConnectionFails, PipelineCloses, CloseStep, TransportStops,
     PipelineClosed, CloseTask, OnTerminated,
     procVars, taskVars
<1>4. ASSUME NEW s \in Sessions, NEW k \in OfferKinds, PublishOffer(s, k) PROVE SlotsInv'
  BY <1>1, <1>4 DEF PublishOffer, procVars, taskVars
<1>5. QED
  BY <1>2, <1>3, <1>4, HandlerSlots, WorkerSlots DEF Next

\* Every way out of process_message gives its slot back, so a live worker's
\* free slots and its handlers under way add up to MAX_CONCURRENT.
THEOREM PermitsConservedAlways == Spec => []PermitsConserved
<1>1. SlotsInv => PermitsConserved
  BY DEF SlotsInv, PermitsConserved, Holders, Running
<1>2. QED
  BY <1>1, InitSlots, SlotsStep, TypeCorrect, DeliveryCorrect, PTL DEF Spec

----------------------------------------------------------------------------
(* What stays pending. *)

\* A worker is past its loop only after SIGTERM or by its end.
StoppedInv ==
  \A w \in Workers : phase[w] \in {"drain", "shutdown", "leaving"} => stop[w]

LEMMA StoppedStep == TypeOK /\ StoppedInv /\ [Next]_vars => StoppedInv'
<1> SUFFICES ASSUME TypeOK, StoppedInv, [Next]_vars PROVE StoppedInv'
    OBVIOUS
<1>1. ASSUME UNCHANGED <<phase, stop>> PROVE StoppedInv'
  BY <1>1 DEF StoppedInv
<1>2. ASSUME NEW v \in Workers, StartStep(v) \/ LoopStep(v) PROVE StoppedInv'
  BY <1>2 DEF StartStep, EnsureGroup, EnsureGroupFails, Register, LoopStep, IssueRead, Deliver,
     ReadTimesOut, ReadFails, Spawn, ReclaimScan, ReclaimNext, ReclaimFails,
     StoppedInv, TypeOK, ProcTypeOK
<1>3. ASSUME NEW v \in Workers, StopStep(v) PROVE StoppedInv'
  BY <1>3 DEF StopStep, Sigterm, Crash, LeaveLoop, Drained, ShutdownAborts, LeaveGroup, Deregister,
     DeregisterFails, ProcessEnds, StoppedInv, TypeOK, ProcTypeOK
<1>4. ASSUME NEW m \in Id, HandlerStep(m) PROVE UNCHANGED <<phase, stop>>
  BY <1>4 DEF HandlerStep, Acquire, BuildFails, CreatePeer, SetRemote, CreateAnswer, SetLocal,
     OfferMalformed, NegotiationFails, AfterError, PublishAnswer,
     PublishFails, Ack, AckFails, AckMalformed, AckMalformedFails, CloseOnError, WaitEnds, procVars
<1>5. ASSUME NEW m \in Id, PeerStep(m) \/ PassTime(m) PROVE UNCHANGED <<phase, stop>>
  BY <1>5 DEF PeerStep, PassTime, ConnectionFails, PipelineCloses, CloseStep, TransportStops,
     PipelineClosed, CloseTask, OnTerminated, procVars
<1>6. ASSUME NEW s \in Sessions, NEW k \in OfferKinds, PublishOffer(s, k) PROVE UNCHANGED <<phase, stop>>
  BY <1>6 DEF PublishOffer, procVars
<1>7. QED
  BY <1>1, <1>2, <1>3, <1>4, <1>5, <1>6 DEF Next, vars, procVars

\* A worker that has left the group stays out of it.
LEMMA LeftStays ==
  ASSUME TypeOK, [Next]_vars, NEW w \in Workers, HasLeft(w)
  PROVE  HasLeft(w)'
<1>1. CASE UNCHANGED <<phase, stop, consumers>>
  BY <1>1 DEF HasLeft
<1>2. ASSUME NEW v \in Workers, StartStep(v) PROVE HasLeft(w)'
  BY <1>2 DEF StartStep, EnsureGroup, EnsureGroupFails, Register, XGroupCreate, SAdd, streamVars,
     HasLeft, TypeOK, ProcTypeOK
<1>3. ASSUME NEW v \in Workers, LoopStep(v) PROVE HasLeft(w)'
  BY <1>3 DEF LoopStep, IssueRead, Deliver, ReadTimesOut, ReadFails, Spawn, ReclaimScan,
     ReclaimNext, ReclaimFails, XReadGroup, XClaim, streamVars, HasLeft, TypeOK, ProcTypeOK
<1>4. ASSUME NEW v \in Workers, StopStep(v) PROVE HasLeft(w)'
  BY <1>4 DEF StopStep, Sigterm, Crash, LeaveLoop, Drained, ShutdownAborts, LeaveGroup, Deregister,
     DeregisterFails, ProcessEnds, XGroupDelConsumer, streamVars, HasLeft, TypeOK, ProcTypeOK
<1>5. ASSUME NEW m \in Id, HandlerStep(m) PROVE UNCHANGED <<phase, stop, consumers>>
  BY <1>5 DEF HandlerStep, Acquire, BuildFails, CreatePeer, SetRemote, CreateAnswer, SetLocal,
     OfferMalformed, NegotiationFails, AfterError, PublishAnswer,
     PublishFails, Ack, AckFails, AckMalformed, AckMalformedFails, CloseOnError, WaitEnds,
       Acknowledge, XAck,
     procVars, streamVars
<1>6. ASSUME NEW m \in Id, PeerStep(m) \/ PassTime(m) PROVE UNCHANGED <<phase, stop, consumers>>
  BY <1>6 DEF PeerStep, PassTime, BecomeIdle, ConnectionFails, PipelineCloses, CloseStep,
     TransportStops, PipelineClosed, CloseTask, OnTerminated,
     procVars, streamVars
<1>7. ASSUME NEW s \in Sessions, NEW k \in OfferKinds, PublishOffer(s, k)
      PROVE  UNCHANGED <<phase, stop, consumers>>
  BY <1>7 DEF PublishOffer, XAdd, procVars
<1>8. QED
  BY <1>1, <1>2, <1>3, <1>4, <1>5, <1>6, <1>7 DEF Next, vars, procVars, streamVars

\* What is settled or pending stays so in every step but a worker's leaving.
Accounted == acked \cup Pending

LEMMA AccountedFrame ==
  ASSUME UnsettledStaysPending, lastId' = lastId, Accounted \subseteq Accounted',
         \A w \in Workers : HasLeft(w) => HasLeft(w)'
  PROVE  UnsettledStaysPending'
BY DEF UnsettledStaysPending, Accounted

LEMMA PendingStep ==
  TypeOK /\ StoppedInv /\ UnsettledStaysPending /\ [Next]_vars => UnsettledStaysPending'
<1> SUFFICES ASSUME TypeOK, StoppedInv, UnsettledStaysPending, [Next]_vars
             PROVE  UnsettledStaysPending'
    OBVIOUS
<1>1. \A w \in Workers : HasLeft(w) => HasLeft(w)'
  BY LeftStays
<1>2. ASSUME UNCHANGED <<lastId, pel, acked>> PROVE UnsettledStaysPending'
  BY <1>1, <1>2, AccountedFrame DEF Accounted, Pending
<1>3. ASSUME NEW w \in Workers, Deliver(w) PROVE UnsettledStaysPending'
  <2>1. want[w] \in Nat /\ lastId \in Nat /\ Len(stream) \in Nat /\ lastId <= Len(stream)
        /\ Len(stream) <= MaxOffers /\ MaxOffers \in Nat
    BY StreamAssumption DEF StreamAssumption, TypeOK, ProcTypeOK, StreamTypeOK
  <2>2. \A m \in 1..lastId' : m \in 1..lastId \/ m \in NewEntries(want[w])
    BY <1>3, <2>1 DEF Deliver, XReadGroup, LastIdAfter, NewEntries
  <2>3. \A m \in Id : pel'[m] = IF m \in NewEntries(want[w]) THEN w ELSE pel[m]
    BY <1>3 DEF Deliver, XReadGroup, PelAfterRead
  <2>4. NewEntries(want[w]) \subseteq Pending' /\ Pending \subseteq Pending' /\ acked' = acked
    BY <1>3, <2>3, StreamAssumption DEF StreamAssumption, Pending, NewEntries, Deliver, taskVars
  <2>5. QED
    BY <1>1, <2>2, <2>4 DEF UnsettledStaysPending
<1>4. ASSUME NEW w \in Workers, ReclaimNext(w) PROVE UnsettledStaysPending'
  <2>1. PICK m \in snapshot[w] : XClaim(w, m)
    BY <1>4 DEF ReclaimNext
  <2>2. lastId' = lastId /\ acked' = acked /\ Pending \subseteq Pending'
    BY <1>4, <2>1, StreamAssumption
       DEF StreamAssumption, ReclaimNext, XClaim, Pending, taskVars, TypeOK, StreamTypeOK
  <2>3. QED
    BY <1>1, <2>2, AccountedFrame DEF Accounted
<1>5. ASSUME NEW w \in Workers, LeaveGroup(w) PROVE UnsettledStaysPending'
  <2>1. CASE XGroupDelConsumer(w)
    <3>1. HasLeft(w)'
      BY <1>5, <2>1 DEF LeaveGroup, XGroupDelConsumer, StoppedInv, HasLeft, TypeOK, ProcTypeOK
    <3>2. QED
      BY <3>1 DEF UnsettledStaysPending
  <2>2. CASE UNCHANGED streamVars
    BY <1>2, <1>5, <2>2 DEF LeaveGroup, streamVars, taskVars
  <2>3. QED
    BY <1>5, <2>1, <2>2 DEF LeaveGroup
<1>6. ASSUME NEW w \in Workers, StartStep(w) \/ LoopStep(w) \/ StopStep(w),
             ~(Deliver(w) \/ ReclaimNext(w) \/ LeaveGroup(w))
      PROVE  UNCHANGED <<lastId, pel, acked>>
  BY <1>6 DEF StartStep, LoopStep, StopStep, EnsureGroup, EnsureGroupFails, Register, IssueRead,
     ReadTimesOut, ReadFails, Spawn, ReclaimScan, ReclaimFails, Sigterm, Crash, LeaveLoop, Drained,
     ShutdownAborts, Deregister, DeregisterFails, ProcessEnds, XGroupCreate, SAdd,
     streamVars, taskVars
<1>7. ASSUME NEW n \in Id, HandlerStep(n) PROVE UnsettledStaysPending'
  <2>1. lastId' = lastId
    BY <1>7 DEF HandlerStep, Acquire, BuildFails, CreatePeer, SetRemote, CreateAnswer, SetLocal,
       OfferMalformed, NegotiationFails, AfterError, PublishAnswer,
       PublishFails, Ack, AckFails, AckMalformed, AckMalformedFails, CloseOnError, WaitEnds,
       Acknowledge, XAck,
       streamVars
  <2>2. \/ UNCHANGED <<pel, acked>>
        \/ acked' = acked \cup {n} /\ \A m \in Id : m # n => pel'[m] = pel[m]
    BY <1>7 DEF HandlerStep, Acquire, BuildFails, CreatePeer, SetRemote, CreateAnswer, SetLocal,
       OfferMalformed, NegotiationFails, AfterError, PublishAnswer,
       PublishFails, Ack, AckFails, AckMalformed, AckMalformedFails, CloseOnError, WaitEnds,
       Acknowledge, XAck,
       streamVars, TypeOK, StreamTypeOK
  <2>3. Accounted \subseteq Accounted'
    BY <2>2 DEF Accounted, Pending
  <2>4. QED
    BY <1>1, <2>1, <2>3, AccountedFrame
<1>8. ASSUME NEW n \in Id, PeerStep(n) \/ PassTime(n) PROVE UNCHANGED <<lastId, pel, acked>>
  BY <1>8 DEF PeerStep, PassTime, BecomeIdle, ConnectionFails, PipelineCloses, CloseStep,
     TransportStops, PipelineClosed, CloseTask, OnTerminated,
     streamVars, taskVars
<1>9. ASSUME NEW s \in Sessions, NEW k \in OfferKinds, PublishOffer(s, k)
      PROVE  UNCHANGED <<lastId, pel, acked>>
  BY <1>9 DEF PublishOffer, XAdd, taskVars
<1>10. CASE UNCHANGED vars
  BY <1>2, <1>10 DEF vars, streamVars, taskVars
<1>11. QED
  BY <1>2, <1>3, <1>4, <1>5, <1>6, <1>7, <1>8, <1>9, <1>10 DEF Next

\* A delivered offer is acknowledged or pending until a worker leaves the group.
THEOREM UnsettledStaysPendingAlways == Spec => []UnsettledStaysPending
<1>1. Init => StoppedInv
  BY DEF Init, StoppedInv
<1>2. Init => UnsettledStaysPending
  BY DEF Init, StreamInit, UnsettledStaysPending
<1>3. QED
  BY <1>1, <1>2, StoppedStep, PendingStep, TypeCorrect, PTL DEF Spec
============================================================================
