------------------------- MODULE VoicePipelineProofs -------------------------
(***************************************************************************)
(* The stages behind vad_gate for any number of turns, sizes and outputs:  *)
(* types, the held LLM worker, and that an interruption silences.          *)
(***************************************************************************)
EXTENDS VoicePipeline, TLAPS

USE DEF vars, signalVars, bridgeVars, llmVars, workerVars, ttsVars

-----------------------------------------------------------------------------
(* Types.  A phrase, a question and a queue are known by their turn, so main *)
(* must be busy with a turn that exists.                                     *)

Spoken == {"start", "end", "utterance"}

BusyWithATurn ==
  /\ mode \in {"talking", "handing"} => turn # 0
  /\ emitted.kind \in Spoken => emitted.turn # 0
  /\ \A i \in DOMAIN bridge : bridge[i].kind \in Spoken => bridge[i].turn # 0
  /\ main = "stt" => current # 0
  /\ main = "answer" => current # 0 /\ current_task = current /\ sentence_queue = current

TypeInv == TypeOK /\ BusyWithATurn

LEMMA HeadTail ==
  ASSUME NEW S, NEW q \in Seq(S), q # <<>>
  PROVE  /\ Head(q) \in S /\ Head(q) = q[1] /\ 1 \in DOMAIN q
         /\ Tail(q) \in Seq(S) /\ Len(Tail(q)) = Len(q) - 1
         /\ \A i \in DOMAIN Tail(q) : i + 1 \in DOMAIN q /\ Tail(q)[i] = q[i + 1]
PROOF OBVIOUS

LEMMA TypeStarts == Init => TypeInv
PROOF
<1> USE SignalsAssumption, PipelineAssumption
<1> QED BY DEF Init, SignalsInit, TypeInv, TypeOK, SignalsTypeOK, BusyWithATurn, NoItem, Item, Turns,
         BridgeItems, QueueItems, HistoryItems, Spoken

LEMMA SourceTypes == TypeInv /\ SourceStep => TypeInv'
PROOF
<1> SUFFICES ASSUME TypeInv, SourceStep PROVE TypeInv'
  OBVIOUS
<1> USE SignalsAssumption DEF TypeInv, SignalsTypeOK, BusyWithATurn, Spoken, Kinds, NoItem, Item
<1>1. SignalsTypeOK' /\ (mode' \in {"talking", "handing"} => turn' # 0)
        /\ (emitted'.kind \in Spoken => emitted'.turn # 0)
  BY DEF TypeOK, SourceStep, Speak, StartSpeaking, EndSpeaking, HandOver, AskUser, HangUp, TrackEnds, Yield
<1> QED BY <1>1 DEF SourceStep, TypeOK
\* An item at the end of the bridge.
LEMMA BridgeAppend ==
  ASSUME TypeInv, NEW x \in BridgeItems, x.kind \in Spoken => x.turn # 0
  PROVE  /\ Append(bridge, x) \in Seq(BridgeItems)
         /\ \A i \in DOMAIN Append(bridge, x) :
              Append(bridge, x)[i].kind \in Spoken => Append(bridge, x)[i].turn # 0
PROOF BY DEF TypeInv, TypeOK, BusyWithATurn

LEMMA HarvesterTypes == TypeInv /\ Harvester => TypeInv'
PROOF
<1> SUFFICES ASSUME TypeInv, Harvester PROVE TypeInv'
  OBVIOUS
<1> USE SignalsAssumption
<1>1. CASE Harvest /\ (HarvesterPurges \/ HarvesterPuts \/ HarvesterDrops)
  <2>1. emitted \in BridgeItems /\ (emitted.kind \in Spoken => emitted.turn # 0)
    BY <1>1 DEF Harvest, Taken, TypeInv, TypeOK, SignalsTypeOK, BridgeItems, BusyWithATurn
  <2>2. /\ bridge' \in Seq(BridgeItems)
        /\ \A i \in DOMAIN bridge' : bridge'[i].kind \in Spoken => bridge'[i].turn # 0
    <3>1. CASE HarvesterPurges
      BY <2>1, <3>1 DEF HarvesterPurges
    <3>2. CASE HarvesterPuts
      BY <2>1, <3>2, BridgeAppend DEF HarvesterPuts
    <3>3. CASE HarvesterDrops
      BY <3>3 DEF HarvesterDrops, TypeInv, TypeOK, BusyWithATurn
    <3> QED BY <1>1, <3>1, <3>2, <3>3
  <2>3. SignalsTypeOK' /\ emitted' = NoItem /\ mode' = mode /\ turn' = turn
    BY <1>1 DEF Harvest, Taken, TypeInv, TypeOK, SignalsTypeOK
  <2> QED BY <1>1, <2>2, <2>3 DEF Harvest, TypeInv, TypeOK, BusyWithATurn, NoItem, Item, Spoken
<1>2. CASE HarvesterEnds
  <2>1. Sentinel \in BridgeItems /\ Sentinel.kind \notin Spoken
    BY DEF Sentinel, Item, BridgeItems, Spoken
  <2>2. /\ bridge' \in Seq(BridgeItems)
        /\ \A i \in DOMAIN bridge' : bridge'[i].kind \in Spoken => bridge'[i].turn # 0
    BY <1>2, <2>1, BridgeAppend DEF HarvesterEnds, TypeInv, TypeOK, BusyWithATurn
  <2> QED BY <1>2, <2>2 DEF HarvesterEnds, TypeInv, TypeOK, SignalsTypeOK, BusyWithATurn
<1> QED BY <1>1, <1>2 DEF Harvester, HarvesterPurges, HarvesterPuts, HarvesterDrops

\* What the head of the bridge and the rest of it are.
LEMMA PullTypes ==
  ASSUME TypeInv, NEW k, Pull(k)
  PROVE  /\ bridge' \in Seq(BridgeItems)
         /\ \A i \in DOMAIN bridge' : bridge'[i].kind \in Spoken => bridge'[i].turn # 0
         /\ Head(bridge).turn \in 0..MaxTurns
         /\ k \in Spoken => Head(bridge).turn # 0
PROOF
<1>1. /\ bridge \in Seq(BridgeItems) /\ bridge # <<>> /\ bridge' = Tail(bridge)
      /\ Head(bridge).kind = k
  BY DEF Pull, TypeInv, TypeOK
<1>2. /\ Head(bridge) \in BridgeItems /\ Head(bridge) = bridge[1] /\ 1 \in DOMAIN bridge
      /\ Tail(bridge) \in Seq(BridgeItems)
      /\ \A i \in DOMAIN Tail(bridge) : i + 1 \in DOMAIN bridge /\ Tail(bridge)[i] = bridge[i + 1]
  BY <1>1, HeadTail
<1>3. Head(bridge).turn \in 0..MaxTurns
  BY <1>2 DEF BridgeItems
<1> QED BY <1>1, <1>2, <1>3 DEF TypeInv, BusyWithATurn

\* A cancelled worker.
LEMMA CancelTypes ==
  ASSUME TypeInv, NEW qs \in [Turns -> Seq(QueueItems)], CancelWorker(qs)
  PROVE  /\ worker' \in [Turns -> {"none", "running", "done"}]
         /\ queues' \in [Turns -> Seq(QueueItems)]
PROOF
<1> DEFINE last == <<Item("cancelled", current_task), Item("end", current_task)>>
<1>1. last \in Seq(QueueItems)
  BY DEF TypeInv, TypeOK, QueueItems, Item
<1>2. \A q \in Seq(QueueItems) : q \o last \in Seq(QueueItems)
  BY <1>1
<1> HIDE DEF last
<1>3. [qs EXCEPT ![writes[current_task]] = @ \o last] \in [Turns -> Seq(QueueItems)]
  BY <1>2
<1> QED BY <1>3 DEF CancelWorker, TypeInv, TypeOK, last

LEMMA OverTypes ==
  ASSUME TypeInv, NEW qs \in [Turns -> Seq(QueueItems)], Over(qs)
  PROVE  /\ worker' \in [Turns -> {"none", "running", "done"}]
         /\ queues' \in [Turns -> Seq(QueueItems)]
         /\ main' = "ended" /\ harvester' = "done" /\ speaking' = 0
         /\ UNCHANGED <<outputs, tts_queue, track, silenced>>
PROOF BY CancelTypes DEF Over, SynthesisEnds

LEMMA DeliverTypes == TypeInv /\ Deliver => TypeInv'
PROOF
<1> SUFFICES ASSUME TypeInv, Deliver PROVE TypeInv'
  OBVIOUS
<1> USE SignalsAssumption DEF SignalsTypeOK
<1>1. CASE StreamRunsOut
  <2>1. Pull("sentinel") /\ Over(queues)
    BY <1>1 DEF StreamRunsOut
  <2>2. /\ bridge' \in Seq(BridgeItems)
        /\ \A i \in DOMAIN bridge' : bridge'[i].kind \in Spoken => bridge'[i].turn # 0
    BY <2>1, PullTypes
  <2>3. queues \in [Turns -> Seq(QueueItems)]
    BY DEF TypeInv, TypeOK
  <2>4. /\ worker' \in [Turns -> {"none", "running", "done"}]
        /\ queues' \in [Turns -> Seq(QueueItems)]
        /\ main' = "ended" /\ harvester' = "done" /\ speaking' = 0
        /\ UNCHANGED <<outputs, tts_queue, track, silenced>>
    BY <2>1, <2>3, OverTypes
  <2> QED BY <1>1, <2>1, <2>2, <2>4 DEF StreamRunsOut, Pull, TypeInv, TypeOK, BusyWithATurn
<1>2. CASE DropSignal
  <2>1. /\ bridge' \in Seq(BridgeItems)
        /\ \A i \in DOMAIN bridge' : bridge'[i].kind \in Spoken => bridge'[i].turn # 0
    BY <1>2, PullTypes DEF DropSignal
  <2> QED BY <1>2, <2>1 DEF DropSignal, Pull, TypeInv, TypeOK, BusyWithATurn
<1>3. CASE StopAnswer
  <2>1. Pull("start") /\ CancelWorker(queues)
    BY <1>3 DEF StopAnswer
  <2>2. /\ bridge' \in Seq(BridgeItems)
        /\ \A i \in DOMAIN bridge' : bridge'[i].kind \in Spoken => bridge'[i].turn # 0
        /\ Head(bridge).turn \in 0..MaxTurns
    BY <2>1, PullTypes
  <2>3. queues \in [Turns -> Seq(QueueItems)]
    BY DEF TypeInv, TypeOK
  <2>4. /\ worker' \in [Turns -> {"none", "running", "done"}]
        /\ queues' \in [Turns -> Seq(QueueItems)]
    BY <2>1, <2>3, CancelTypes
  <2> QED BY <1>3, <2>1, <2>2, <2>4 DEF StopAnswer, Pull, TypeInv, TypeOK, BusyWithATurn
<1>4. CASE StopSpeaking
  BY <1>4 DEF StopSpeaking, TypeInv, TypeOK, BusyWithATurn
<1>5. CASE Prompt
  <2>1. Append(tts_queue, Head(bridge).turn) \in Seq(0..MaxTurns)
    BY SMTT(30), <1>5, PullTypes DEF Prompt, TypeInv, TypeOK
  <2>2. /\ bridge' \in Seq(BridgeItems)
        /\ \A i \in DOMAIN bridge' : bridge'[i].kind \in Spoken => bridge'[i].turn # 0
    BY <1>5, PullTypes DEF Prompt
  <2> QED BY <1>5, <2>1, <2>2 DEF Prompt, Pull, TypeInv, TypeOK, BusyWithATurn
<1>6. CASE DropPrompt
  <2>1. /\ bridge' \in Seq(BridgeItems)
        /\ \A i \in DOMAIN bridge' : bridge'[i].kind \in Spoken => bridge'[i].turn # 0
    BY <1>6, PullTypes DEF DropPrompt
  <2> QED BY <1>6, <2>1 DEF DropPrompt, Pull, TypeInv, TypeOK, BusyWithATurn
<1>7. CASE TakeUtterance
  <2>1. /\ bridge' \in Seq(BridgeItems)
        /\ \A i \in DOMAIN bridge' : bridge'[i].kind \in Spoken => bridge'[i].turn # 0
        /\ Head(bridge).turn \in 0..MaxTurns /\ Head(bridge).turn # 0
    BY <1>7, PullTypes DEF TakeUtterance, Spoken
  <2> QED BY <1>7, <2>1 DEF TakeUtterance, Pull, TypeInv, TypeOK, BusyWithATurn, Spoken
<1> QED BY <1>1, <1>2, <1>3, <1>4, <1>5, <1>6, <1>7 DEF Deliver

LEMMA TranscriptTypes == TypeInv /\ Transcript => TypeInv'
PROOF
<1> SUFFICES ASSUME TypeInv, Transcript PROVE TypeInv'
  OBVIOUS
<1> USE SignalsAssumption DEF SignalsTypeOK
<1>1. CASE Ask
  <2>1. Append(history, User(current)) \in Seq(HistoryItems)
    <3>1. User(current) \in HistoryItems
      BY DEF TypeInv, TypeOK, User, HistoryItems
    <3> QED BY <3>1 DEF TypeInv, TypeOK
  <2>2. current \in Turns
    BY <1>1 DEF Ask, Transcribing, TypeInv, TypeOK, BusyWithATurn, Turns
  <2>3. /\ worker' \in [Turns -> {"none", "running", "done"}]
        /\ writes' \in [Turns -> 0..MaxTurns]
    BY <1>1, <2>2 DEF Ask, FreshQueue, TypeInv, TypeOK, Turns
  <2>4. <<>> \in Seq(0..MaxTurns)
    OBVIOUS
  <2> QED BY <1>1, <2>1, <2>3, <2>4 DEF Ask, Transcribing, FreshQueue, TypeInv, TypeOK, BusyWithATurn
<1>2. CASE EmptyTranscript
  BY <1>2 DEF EmptyTranscript, Transcribing, TypeInv, TypeOK, BusyWithATurn
<1>3. CASE TranscriptionFails
  <2>1. Over(queues)
    BY <1>3 DEF TranscriptionFails
  <2>2. queues \in [Turns -> Seq(QueueItems)]
    BY DEF TypeInv, TypeOK
  <2>3. /\ worker' \in [Turns -> {"none", "running", "done"}]
        /\ queues' \in [Turns -> Seq(QueueItems)]
        /\ main' = "ended" /\ harvester' = "done" /\ speaking' = 0
        /\ UNCHANGED <<outputs, tts_queue, track, silenced>>
    BY <2>1, <2>2, OverTypes
  <2> QED BY <1>3, <2>3 DEF TranscriptionFails, Transcribing, TypeInv, TypeOK, BusyWithATurn
<1> QED BY <1>1, <1>2, <1>3 DEF Transcript

\* The head of sentence_queue and the queues without it.
LEMMA GetTypes ==
  ASSUME TypeInv, NEW k, Get(k)
  PROVE  /\ Rest \in [Turns -> Seq(QueueItems)]
         /\ Head(queues[sentence_queue]).turn \in 0..MaxTurns
PROOF
<1> DEFINE q == queues[sentence_queue]
<1>1. sentence_queue \in Turns
  BY SignalsAssumption DEF Get, TypeInv, TypeOK, BusyWithATurn, Turns
<1>2. q \in Seq(QueueItems) /\ q # <<>>
  BY <1>1 DEF Get, TypeInv, TypeOK
<1> HIDE DEF q
<1>3. Head(q) \in QueueItems /\ Tail(q) \in Seq(QueueItems)
  BY <1>2, HeadTail
<1>4. Head(q).turn \in 0..MaxTurns
  BY <1>3 DEF QueueItems
<1> QED BY <1>3, <1>4 DEF q, Rest, TypeInv, TypeOK

LEMMA SayTypes ==
  ASSUME TypeInv, NEW final \in BOOLEAN, Say(final)
  PROVE  /\ tts_queue' \in Seq(0..MaxTurns) /\ replied' \subseteq 0..MaxTurns
         /\ UNCHANGED <<speaking, track, silenced>>
PROOF BY DEF Say, TypeInv, TypeOK

LEMMA ApologiseTypes ==
  ASSUME TypeInv, NEW qs \in [Turns -> Seq(QueueItems)], Apologise(qs)
  PROVE  TypeInv'
PROOF
<1> USE SignalsAssumption DEF SignalsTypeOK
<1>1. Say(TRUE)
  BY DEF Apologise
<1>2. /\ tts_queue' \in Seq(0..MaxTurns) /\ replied' \subseteq 0..MaxTurns
      /\ UNCHANGED <<speaking, track, silenced>>
  BY <1>1, SayTypes
<1> QED BY <1>2 DEF Apologise, Answering, TypeInv, TypeOK, BusyWithATurn

LEMMA AnswerTypes == TypeInv /\ Answer => TypeInv'
PROOF
<1> SUFFICES ASSUME TypeInv, Answer PROVE TypeInv'
  OBVIOUS
<1> USE SignalsAssumption DEF SignalsTypeOK
<1>1. CASE NextSentence
  <2>1. Get("sentence") /\ Say(TRUE)
    BY <1>1 DEF NextSentence
  <2>2. full_response' \in Seq(0..MaxTurns)
    BY <1>1, <2>1, GetTypes DEF NextSentence, TypeInv, TypeOK
  <2>3. queues' \in [Turns -> Seq(QueueItems)]
    BY <1>1, <2>1, GetTypes DEF NextSentence
  <2>4. /\ tts_queue' \in Seq(0..MaxTurns) /\ replied' \subseteq 0..MaxTurns
        /\ UNCHANGED <<speaking, track, silenced>>
    BY <2>1, SayTypes
  <2> QED BY SMTT(30), <1>1, <2>2, <2>3, <2>4 DEF NextSentence, Answering, TypeInv, TypeOK, BusyWithATurn
<1>2. CASE SaveAnswer
  <2>1. Assistant(current, full_response) \in HistoryItems
    BY DEF TypeInv, TypeOK, Assistant, HistoryItems
  <2>2. history' \in Seq(HistoryItems)
    BY <1>2, <2>1 DEF SaveAnswer, TypeInv, TypeOK
  <2>3. Rest \in [Turns -> Seq(QueueItems)]
    BY <1>2, GetTypes DEF SaveAnswer
  <2> QED BY <1>2, <2>2, <2>3 DEF SaveAnswer, Answering, TypeInv, TypeOK, BusyWithATurn
<1>3. CASE NoAnswer \/ WorkerFailed \/ ToolCalled
  BY <1>3, GetTypes, ApologiseTypes DEF NoAnswer, WorkerFailed, ToolCalled
<1>4. CASE EndConversation
  <2>1. Assistant(current, <<>>) \in HistoryItems
    BY DEF TypeInv, TypeOK, Assistant, HistoryItems
  <2>2. history' \in Seq(HistoryItems)
    BY <1>4, <2>1 DEF EndConversation, TypeInv, TypeOK
  <2>3. Over(Rest) /\ Rest \in [Turns -> Seq(QueueItems)]
    BY <1>4, GetTypes DEF EndConversation
  <2>4. /\ worker' \in [Turns -> {"none", "running", "done"}]
        /\ queues' \in [Turns -> Seq(QueueItems)]
        /\ main' = "ended" /\ harvester' = "done" /\ speaking' = 0
        /\ UNCHANGED <<outputs, tts_queue, track, silenced>>
    BY <2>3, OverTypes
  <2> QED BY <1>4, <2>2, <2>4 DEF EndConversation, TypeInv, TypeOK, BusyWithATurn
<1>5. CASE KeepWaiting
  <2>1. timeout_curr' \in {0, 2, 4, 6}
    <3>1. timeout_curr \in {0, 2, 4, 6} /\ timeout_curr < 5 /\ timeout_curr' = timeout_curr + 2
      BY <1>5 DEF KeepWaiting, TypeInv, TypeOK
    <3> QED BY <3>1
  <2>2. Say(FALSE)
    BY <1>5 DEF KeepWaiting
  <2>3. /\ tts_queue' \in Seq(0..MaxTurns) /\ replied' \subseteq 0..MaxTurns
        /\ UNCHANGED <<speaking, track, silenced>>
    BY <2>2, SayTypes
  <2> QED BY <1>5, <2>1, <2>3 DEF KeepWaiting, Answering, TypeInv, TypeOK, BusyWithATurn
<1>6. CASE GiveUp
  BY <1>6, ApologiseTypes DEF GiveUp, TypeInv, TypeOK
<1> QED BY <1>1, <1>2, <1>3, <1>4, <1>5, <1>6 DEF Answer

LEMMA CancelledTypes == TypeInv /\ Cancelled => TypeInv'
PROOF
<1> SUFFICES ASSUME TypeInv, Cancelled PROVE TypeInv'
  OBVIOUS
<1>1. Over(queues) /\ queues \in [Turns -> Seq(QueueItems)]
  BY DEF Cancelled, TypeInv, TypeOK
<1>2. /\ worker' \in [Turns -> {"none", "running", "done"}]
      /\ queues' \in [Turns -> Seq(QueueItems)]
      /\ main' = "ended" /\ harvester' = "done" /\ speaking' = 0
      /\ UNCHANGED <<outputs, tts_queue, track, silenced>>
  BY <1>1, OverTypes
<1> QED BY <1>2, SignalsAssumption DEF Cancelled, TypeInv, TypeOK, SignalsTypeOK, BusyWithATurn

\* What a worker puts into the queue it was given.
LEMMA QueueTypes ==
  ASSUME TypeInv, NEW i, NEW last \in Seq(QueueItems)
  PROVE  [queues EXCEPT ![i] = @ \o last] \in [Turns -> Seq(QueueItems)]
PROOF
<1>1. \A q \in Seq(QueueItems) : q \o last \in Seq(QueueItems)
  OBVIOUS
<1> QED BY <1>1 DEF TypeInv, TypeOK

LEMMA PutTypes ==
  ASSUME TypeInv, NEW i, NEW x \in QueueItems
  PROVE  [queues EXCEPT ![i] = Append(@, x)] \in [Turns -> Seq(QueueItems)]
PROOF
<1>1. \A q \in Seq(QueueItems) : Append(q, x) \in Seq(QueueItems)
  OBVIOUS
<1> QED BY <1>1 DEF TypeInv, TypeOK

\* A worker disturbs nothing but its queue.
LEMMA WorkerFrame ==
  ASSUME TypeInv, NEW t, WorkerStep(t),
         worker' \in [Turns -> {"none", "running", "done"}],
         queues' \in [Turns -> Seq(QueueItems)],
         outputs' \in [Turns -> 0..MaxOutputs]
  PROVE  TypeInv'
PROOF
<1>1. UNCHANGED <<signalVars, bridgeVars, main, current, llmVars, ttsVars, replied>>
  BY DEF WorkerStep
<1>2. SignalsTypeOK' /\ BusyWithATurn'
  BY <1>1 DEF TypeInv, TypeOK, SignalsTypeOK, BusyWithATurn
<1>3. TypeOK'
  BY <1>1, <1>2 DEF TypeInv, TypeOK
<1> QED BY <1>2, <1>3 DEF TypeInv

LEMMA WorkerTypes == TypeInv /\ (\E t \in Turns : LlmWorker(t)) => TypeInv'
PROOF
<1> SUFFICES ASSUME TypeInv, NEW t \in Turns, LlmWorker(t) PROVE TypeInv'
  OBVIOUS
<1> USE PipelineAssumption DEF SignalsTypeOK
<1>1. \A k \in {"sentence", "tool", "bye", "end", "exception"} : Item(k, t) \in QueueItems
  BY DEF Item, QueueItems, Turns
<1>2. CASE \E kind \in {"sentence", "tool", "bye"} : Produce(t, kind)
  <2>1. PICK kind \in {"sentence", "tool", "bye"} : Produce(t, kind)
    BY <1>2
  <2>2. queues' \in [Turns -> Seq(QueueItems)]
    BY <1>1, <2>1, PutTypes DEF Produce, Put
  <2>3. outputs' \in [Turns -> 0..MaxOutputs]
    BY SMTT(30), <2>1 DEF Produce, TypeInv, TypeOK
  <2>4. worker' \in [Turns -> {"none", "running", "done"}]
    BY <2>1 DEF Produce, TypeInv, TypeOK
  <2> QED BY <2>1, <2>2, <2>3, <2>4, WorkerFrame DEF Produce
<1>3. CASE Finish(t)
  <2>1. queues' \in [Turns -> Seq(QueueItems)]
    BY <1>1, <1>3, PutTypes DEF Finish, Put
  <2>2. worker' \in [Turns -> {"none", "running", "done"}]
    BY <1>3 DEF Finish, TypeInv, TypeOK
  <2>3. outputs' \in [Turns -> 0..MaxOutputs]
    BY <1>3 DEF Finish, TypeInv, TypeOK
  <2> QED BY <1>3, <2>1, <2>2, <2>3, WorkerFrame DEF Finish
<1>4. CASE Fail(t)
  <2>1. <<Item("exception", t), Item("end", t)>> \in Seq(QueueItems)
    BY <1>1
  <2>2. queues' \in [Turns -> Seq(QueueItems)]
    BY <1>4, <2>1, QueueTypes DEF Fail
  <2>3. worker' \in [Turns -> {"none", "running", "done"}]
    BY <1>4 DEF Fail, TypeInv, TypeOK
  <2>4. outputs' \in [Turns -> 0..MaxOutputs]
    BY <1>4 DEF Fail, TypeInv, TypeOK
  <2> QED BY <1>4, <2>2, <2>3, <2>4, WorkerFrame DEF Fail
<1>5. CASE Die(t)
  <2>1. worker' \in [Turns -> {"none", "running", "done"}]
    BY <1>5 DEF Die, TypeInv, TypeOK
  <2>2. outputs' \in [Turns -> 0..MaxOutputs] /\ queues' \in [Turns -> Seq(QueueItems)]
    BY <1>5 DEF Die, TypeInv, TypeOK
  <2> QED BY <1>5, <2>1, <2>2, WorkerFrame DEF Die
<1> QED BY <1>2, <1>3, <1>4, <1>5 DEF LlmWorker

LEMMA TtsTypes == TypeInv /\ Tts => TypeInv'
PROOF
<1> SUFFICES ASSUME TypeInv, Tts PROVE TypeInv'
  OBVIOUS
<1> USE DEF SignalsTypeOK, TtsStep, TypeInv, TypeOK, BusyWithATurn
<1>1. CASE TakePhrase
  <2>1. Head(tts_queue) \in 0..MaxTurns /\ Tail(tts_queue) \in Seq(0..MaxTurns)
    BY <1>1, HeadTail DEF TakePhrase
  <2> QED BY <1>1, <2>1 DEF TakePhrase
<1>2. CASE PushChunk
  BY <1>2 DEF PushChunk
<1>3. CASE PhraseDone
  BY <1>3, SignalsAssumption DEF PhraseDone
<1>4. CASE Play
  BY <1>4 DEF Play
<1> QED BY <1>1, <1>2, <1>3, <1>4 DEF Tts

LEMMA TypesKept == TypeInv /\ [Next]_vars => TypeInv'
PROOF
<1>1. TypeInv /\ UNCHANGED vars => TypeInv'
  BY DEF TypeInv, TypeOK, SignalsTypeOK, BusyWithATurn
<1> QED BY <1>1, SourceTypes, HarvesterTypes, DeliverTypes, TranscriptTypes, AnswerTypes,
         CancelledTypes, WorkerTypes, TtsTypes DEF Next, Main

LEMMA TypeInvHolds == Spec => []TypeInv
PROOF BY TypeStarts, TypesKept, PTL DEF Spec

\* The variables of the stages have their types; timeout_curr stays within its steps.
THEOREM PipelineTypeCorrect == Spec => []TypeOK
PROOF BY TypeInvHolds, PTL DEF TypeInv

-----------------------------------------------------------------------------
(* Interruption.  The bridge only ever holds items of one turn: that of the  *)
(* last StartSpeaking the harvester has put.  Either that StartSpeaking is   *)
(* still at the head, or main has handled it.                                *)

\* The turn the bridge is at.
BridgeTurn == IF emitted.kind = "start" THEN turn - 1 ELSE turn

StartWaits == bridge # <<>> /\ Head(bridge).kind = "start"

\* The turn llm_stream has been silenced for, and tts now or in its next step.
Handled == IF main = "silence" THEN current ELSE silenced

OneTurnInBridge ==
  /\ emitted # NoItem => emitted.turn = turn
  /\ \A i \in DOMAIN bridge : bridge[i].kind # "sentinel" => bridge[i].turn = BridgeTurn
  /\ \A i \in DOMAIN bridge : i > 1 => bridge[i].kind # "start"

StartIsHandled == main # "ended" => StartWaits \/ Handled = BridgeTurn

\* InterruptionSilences without the set of what is pending.
Silent ==
  /\ \A i \in DOMAIN tts_queue : tts_queue[i] = silenced
  /\ \A i \in DOMAIN track : track[i] = silenced
  /\ speaking # 0 => speaking = silenced
  /\ main \in {"stt", "answer"} => current = silenced

SilenceInv == TypeInv /\ OneTurnInBridge /\ StartIsHandled /\ Silent

\* The bridge without its head.
LEMMA PullLeaves ==
  ASSUME TypeInv, NEW k, Pull(k)
  PROVE  /\ bridge # <<>> /\ 1 \in DOMAIN bridge /\ Head(bridge) = bridge[1] /\ bridge[1].kind = k
         /\ \A i \in DOMAIN bridge' : i + 1 \in DOMAIN bridge /\ i + 1 > 1 /\ bridge'[i] = bridge[i + 1]
         /\ bridge' # <<>> => 1 \in DOMAIN bridge' /\ Head(bridge') = bridge'[1]
         /\ UNCHANGED signalVars
PROOF
<1>1. bridge \in Seq(BridgeItems) /\ bridge # <<>> /\ bridge' = Tail(bridge)
  BY DEF Pull, TypeInv, TypeOK
<1>2. bridge' \in Seq(BridgeItems)
  BY PullTypes
<1> QED BY <1>1, <1>2, HeadTail DEF Pull, TypeInv, TypeOK

\* The bridge with one more item.
LEMMA PutKeeps ==
  ASSUME TypeInv, NEW x, bridge' = Append(bridge, x)
  PROVE  /\ \A i \in DOMAIN bridge : i \in DOMAIN bridge' /\ bridge'[i] = bridge[i]
         /\ \A i \in DOMAIN bridge' : i \in DOMAIN bridge \/ (i = Len(bridge) + 1 /\ bridge'[i] = x)
         /\ bridge' # <<>> /\ 1 \in DOMAIN bridge' /\ Head(bridge') = bridge'[1]
         /\ bridge # <<>> => 1 \in DOMAIN bridge /\ Head(bridge) = bridge[1]
         /\ \A i \in DOMAIN bridge : i >= 1 /\ i <= Len(bridge)
PROOF BY SMTT(30) DEF TypeInv, TypeOK

LEMMA SilenceStarts == Init => SilenceInv
PROOF BY TypeStarts DEF Init, SignalsInit, SilenceInv, OneTurnInBridge, StartIsHandled, BridgeTurn,
           Handled, Silent, NoItem, Item

LEMMA SourceSilence == SilenceInv /\ SourceStep => OneTurnInBridge' /\ StartIsHandled' /\ Silent'
PROOF
<1> SUFFICES ASSUME SilenceInv, SourceStep PROVE OneTurnInBridge' /\ StartIsHandled' /\ Silent'
  OBVIOUS
<1>1. /\ BridgeTurn' = BridgeTurn
      /\ emitted' # NoItem => emitted'.turn = turn'
  BY SignalsAssumption DEF SilenceInv, TypeInv, TypeOK, SignalsTypeOK, SourceStep, Speak, StartSpeaking, EndSpeaking,
       HandOver, AskUser, HangUp, TrackEnds, Yield, BridgeTurn, OneTurnInBridge, NoItem, Item
<1> QED BY <1>1 DEF SilenceInv, SourceStep, OneTurnInBridge, StartIsHandled, StartWaits, Handled, Silent

LEMMA HarvesterSilence == SilenceInv /\ Harvester => OneTurnInBridge' /\ StartIsHandled' /\ Silent'
PROOF
<1> SUFFICES ASSUME SilenceInv, Harvester PROVE OneTurnInBridge' /\ StartIsHandled' /\ Silent'
  OBVIOUS
<1> USE DEF SilenceInv, Harvest, Taken, OneTurnInBridge, StartIsHandled, StartWaits, Handled, Silent,
            BridgeTurn, NoItem, Item
<1>1. CASE HarvesterPurges
  BY <1>1 DEF HarvesterPurges
<1>2. CASE HarvesterPuts
  BY <1>2, PutKeeps DEF HarvesterPuts
<1>3. CASE HarvesterDrops
  BY <1>3 DEF HarvesterDrops
<1>4. CASE HarvesterEnds
  <2>1. CASE bridge' = Append(bridge, Sentinel)
    BY <1>4, <2>1, PutKeeps DEF HarvesterEnds, Sentinel
  <2>2. CASE bridge' = bridge
    BY <1>4, <2>2 DEF HarvesterEnds
  <2> QED BY <1>4, <2>1, <2>2 DEF HarvesterEnds
<1> QED BY <1>1, <1>2, <1>3, <1>4 DEF Harvester

LEMMA PullSilence ==
  ASSUME SilenceInv, NEW k, Pull(k)
  PROVE  /\ OneTurnInBridge' /\ BridgeTurn' = BridgeTurn /\ ~StartWaits'
         /\ k # "sentinel" => Head(bridge).turn = BridgeTurn
         /\ k # "start" => silenced = BridgeTurn
PROOF
<1>1. UNCHANGED signalVars /\ main = "pull"
  BY DEF Pull
<1> QED BY <1>1, PullLeaves DEF SilenceInv, OneTurnInBridge, StartIsHandled, StartWaits, Handled, BridgeTurn

LEMMA DeliverSilence == SilenceInv /\ Deliver => OneTurnInBridge' /\ StartIsHandled' /\ Silent'
PROOF
<1> SUFFICES ASSUME SilenceInv, Deliver PROVE OneTurnInBridge' /\ StartIsHandled' /\ Silent'
  OBVIOUS
<1>1. CASE StreamRunsOut
  BY <1>1, PullSilence DEF StreamRunsOut, Over, SynthesisEnds, SilenceInv, StartIsHandled, Silent
<1>2. CASE DropSignal
  BY <1>2, PullSilence DEF DropSignal, SilenceInv, StartIsHandled, Handled, Silent, Pull
<1>3. CASE StopAnswer
  BY <1>3, PullSilence DEF StopAnswer, SilenceInv, StartIsHandled, Handled, Silent
<1>4. CASE StopSpeaking
  BY <1>4 DEF StopSpeaking, SilenceInv, StartIsHandled, Handled, Silent, OneTurnInBridge, StartWaits, BridgeTurn
<1>5. CASE Prompt
  <2>1. /\ OneTurnInBridge' /\ BridgeTurn' = BridgeTurn
        /\ Head(bridge).turn = silenced /\ silenced = BridgeTurn
    BY <1>5, PullSilence DEF Prompt
  <2>2. \A i \in DOMAIN tts_queue' : tts_queue'[i] = silenced
    BY <1>5, <2>1 DEF Prompt, SilenceInv, TypeInv, TypeOK, Silent
  <2> QED BY <1>5, <2>1, <2>2 DEF Prompt, Pull, SilenceInv, StartIsHandled, Handled, Silent
<1>6. CASE DropPrompt
  BY <1>6, PullSilence DEF DropPrompt, SilenceInv, StartIsHandled, Handled, Silent, Pull
<1>7. CASE TakeUtterance
  BY <1>7, PullSilence DEF TakeUtterance, SilenceInv, StartIsHandled, Handled, Silent, Pull
<1> QED BY <1>1, <1>2, <1>3, <1>4, <1>5, <1>6, <1>7 DEF Deliver

\* A phrase is said for the turn main is at.
LEMMA SaySilence ==
  ASSUME SilenceInv, main = "answer", NEW final \in BOOLEAN, Say(final)
  PROVE  \A i \in DOMAIN tts_queue' : tts_queue'[i] = silenced
PROOF BY DEF Say, SilenceInv, TypeInv, TypeOK, Silent

LEMMA AnswerSilence ==
  SilenceInv /\ (Transcript \/ Answer \/ Cancelled) => OneTurnInBridge' /\ StartIsHandled' /\ Silent'
PROOF
<1> SUFFICES ASSUME SilenceInv, Transcript \/ Answer \/ Cancelled
             PROVE  OneTurnInBridge' /\ StartIsHandled' /\ Silent'
  OBVIOUS
<1> USE DEF Waited, Get, Answering, Transcribing
<1>1. UNCHANGED <<signalVars, bridge, current, silenced>> /\ main # "silence" /\ main # "ended"
  BY DEF Transcript, Ask, EmptyTranscript, TranscriptionFails, Over, SynthesisEnds, Answer, NextSentence, SaveAnswer,
         NoAnswer, WorkerFailed, ToolCalled, Apologise, Say, EndConversation, KeepWaiting, GiveUp, Cancelled
<1>2. OneTurnInBridge' /\ (main' # "silence" => StartIsHandled')
  BY <1>1 DEF SilenceInv, OneTurnInBridge, StartIsHandled, StartWaits, Handled, BridgeTurn
<1>3. CASE Ask \/ EmptyTranscript \/ SaveAnswer
  BY <1>1, <1>2, <1>3 DEF Ask, EmptyTranscript, SaveAnswer, SilenceInv, Silent
<1>4. CASE TranscriptionFails \/ EndConversation \/ Cancelled
  BY <1>1, <1>2, <1>4 DEF TranscriptionFails, EndConversation, Cancelled, Over, SynthesisEnds, SilenceInv, Silent
<1>5. CASE NextSentence \/ NoAnswer \/ WorkerFailed \/ ToolCalled \/ KeepWaiting \/ GiveUp
  <2>1. /\ main = "answer" /\ (Say(TRUE) \/ Say(FALSE)) /\ main' \in {"pull", "answer"}
    BY <1>5 DEF NextSentence, NoAnswer, WorkerFailed, ToolCalled, KeepWaiting, GiveUp, Apologise
  <2>2. \A i \in DOMAIN tts_queue' : tts_queue'[i] = silenced
    BY <2>1, SaySilence
  <2>3. UNCHANGED <<speaking, track>>
    BY <2>1 DEF Say
  <2> QED BY <1>1, <1>2, <2>1, <2>2, <2>3 DEF SilenceInv, Silent
<1> QED BY <1>3, <1>4, <1>5 DEF Transcript, Answer

LEMMA TtsSilence == SilenceInv /\ Tts => OneTurnInBridge' /\ StartIsHandled' /\ Silent'
PROOF
<1> SUFFICES ASSUME SilenceInv, Tts PROVE OneTurnInBridge' /\ StartIsHandled' /\ Silent'
  OBVIOUS
<1>1. TtsStep
  BY DEF Tts, TakePhrase, PushChunk, PhraseDone, Play
<1>2. OneTurnInBridge' /\ StartIsHandled'
  BY <1>1 DEF TtsStep, SilenceInv, OneTurnInBridge, StartIsHandled, StartWaits, Handled, BridgeTurn
<1> USE <1>1, <1>2, HeadTail DEF TtsStep, SilenceInv, TypeInv, TypeOK, Silent
<1>3. CASE TakePhrase
  BY <1>3 DEF TakePhrase
<1>4. CASE PushChunk
  BY <1>4 DEF PushChunk
<1>5. CASE PhraseDone
  BY <1>5 DEF PhraseDone
<1>6. CASE Play
  BY <1>6 DEF Play
<1> QED BY <1>3, <1>4, <1>5, <1>6 DEF Tts

LEMMA SilenceKept == SilenceInv /\ [Next]_vars => SilenceInv'
PROOF
<1> SUFFICES ASSUME SilenceInv, [Next]_vars PROVE SilenceInv'
  OBVIOUS
<1>1. TypeInv'
  BY TypesKept DEF SilenceInv
<1>2. CASE (\E t \in Turns : LlmWorker(t)) \/ UNCHANGED vars
  <2>1. UNCHANGED <<signalVars, bridge, main, current, silenced, tts_queue, speaking, track>>
    BY <1>2 DEF LlmWorker, Produce, Finish, Fail, Die, WorkerStep
  <2> QED BY <1>1, <2>1 DEF SilenceInv, OneTurnInBridge, StartIsHandled, StartWaits, Handled, BridgeTurn, Silent
<1> QED BY <1>1, <1>2, SourceSilence, HarvesterSilence, DeliverSilence, AnswerSilence, TtsSilence
        DEF SilenceInv, Next, Main

\* However long the user, the model, the synthesis and the listener take: nothing said
\* before an interruption is heard once tts has handled it.
THEOREM InterruptionSilencesAlways == Spec => []InterruptionSilences
PROOF
<1>1. SilenceInv => InterruptionSilences
  BY DEF SilenceInv, Silent, InterruptionSilences, Pending
<1> QED BY <1>1, SilenceStarts, SilenceKept, PTL DEF Spec

-----------------------------------------------------------------------------
(* The held worker.  An utterance is preceded by its StartSpeaking, which    *)
(* purges the utterance before it: when main takes one, no question is held. *)

InSpeech == mode \in {"talking", "handing"}

\* One utterance at a time is on its way from vad_gate to main.
OneUtterance ==
  /\ \A i, j \in DOMAIN bridge : bridge[i].kind = "utterance" /\ bridge[j].kind = "utterance" => i = j
  /\ \A i \in DOMAIN bridge : bridge[i].kind = "utterance" =>
       emitted.kind # "utterance" /\ (InSpeech => emitted.kind = "start")
  /\ emitted.kind = "utterance" => ~InSpeech

\* While a question is held, what is said next is announced before it arrives.
Announced ==
  current_task # 0 \/ main = "stt" =>
    /\ \A i \in DOMAIN bridge : bridge[i].kind = "utterance" => StartWaits
    /\ InSpeech \/ emitted.kind = "utterance" => StartWaits \/ emitted.kind = "start"

HeldInv ==
  /\ TypeInv /\ OneUtterance /\ Announced
  /\ main \in {"silence", "stt"} => current_task = 0
  /\ RunningWorkerIsHeld

LEMMA HeldStarts == Init => HeldInv
PROOF BY TypeStarts DEF Init, SignalsInit, HeldInv, OneUtterance, Announced, InSpeech, RunningWorkerIsHeld,
           NoItem, Item

\* The LLM workers play no part in what is on its way.
LEMMA SourceHeld == HeldInv /\ SourceStep => OneUtterance' /\ Announced'
PROOF
<1> SUFFICES ASSUME HeldInv, SourceStep PROVE OneUtterance' /\ Announced'
  OBVIOUS
<1> USE DEF HeldInv, SourceStep, OneUtterance, Announced, InSpeech, StartWaits, Yield, NoItem, Item
<1>1. CASE StartSpeaking
  BY <1>1 DEF StartSpeaking
<1>2. CASE EndSpeaking
  BY <1>2 DEF EndSpeaking
<1>3. CASE HandOver
  BY <1>3 DEF HandOver
<1>4. CASE AskUser
  BY <1>4 DEF AskUser
<1>5. CASE HangUp
  BY <1>5 DEF HangUp
<1>6. CASE TrackEnds
  BY <1>6 DEF TrackEnds
<1> QED BY <1>1, <1>2, <1>3, <1>4, <1>5, <1>6 DEF Speak

LEMMA HarvesterHeld == HeldInv /\ Harvester => OneUtterance' /\ Announced'
PROOF
<1> SUFFICES ASSUME HeldInv, Harvester PROVE OneUtterance' /\ Announced'
  OBVIOUS
<1> USE DEF HeldInv, Harvest, Taken, OneUtterance, Announced, InSpeech, StartWaits, NoItem, Item
<1>1. CASE HarvesterPurges
  BY <1>1 DEF HarvesterPurges
<1>2. CASE HarvesterPuts
  BY <1>2, PutKeeps DEF HarvesterPuts
<1>3. CASE HarvesterDrops
  BY <1>3 DEF HarvesterDrops
<1>4. CASE HarvesterEnds
  <2>1. CASE bridge' = Append(bridge, Sentinel)
    BY <1>4, <2>1, PutKeeps DEF HarvesterEnds, Sentinel
  <2>2. CASE bridge' = bridge
    BY <1>4, <2>2 DEF HarvesterEnds
  <2> QED BY <1>4, <2>1, <2>2 DEF HarvesterEnds
<1> QED BY <1>1, <1>2, <1>3, <1>4 DEF Harvester

\* Main takes an item other than StartSpeaking while a question is held: no utterance is
\* left in the bridge and none is on its way unannounced.
LEMMA PullHeld ==
  ASSUME HeldInv, NEW k, Pull(k)
  PROVE  /\ OneUtterance'
         /\ current_task # 0 /\ k # "start" =>
              /\ \A i \in DOMAIN bridge : bridge[i].kind # "utterance"
              /\ InSpeech \/ emitted.kind = "utterance" => emitted.kind = "start"
PROOF
<1>1. UNCHANGED signalVars
  BY DEF Pull
<1>2. OneUtterance'
  <2>1. \A i, j \in DOMAIN bridge' :
          bridge'[i].kind = "utterance" /\ bridge'[j].kind = "utterance" => i = j
    <3> SUFFICES ASSUME NEW i \in DOMAIN bridge', NEW j \in DOMAIN bridge',
                        bridge'[i].kind = "utterance", bridge'[j].kind = "utterance"
                 PROVE  i = j
      OBVIOUS
    <3>1. i + 1 \in DOMAIN bridge /\ j + 1 \in DOMAIN bridge /\ bridge'[i] = bridge[i + 1] /\ bridge'[j] = bridge[j + 1]
      BY PullLeaves DEF HeldInv
    <3>2. i + 1 = j + 1
      BY <3>1 DEF HeldInv, OneUtterance
    <3>3. i \in Nat /\ j \in Nat
      BY PullTypes DEF HeldInv
    <3> QED BY <3>2, <3>3
  <2> QED BY <1>1, <2>1, PullLeaves DEF HeldInv, OneUtterance, InSpeech
<1> QED BY <1>2, PullLeaves DEF HeldInv, Announced, StartWaits

\* The held worker is the only one that can run.
LEMMA CancelStops ==
  ASSUME HeldInv, NEW qs, CancelWorker(qs)
  PROVE  \A t \in Turns : worker'[t] # "running"
PROOF
<1> SUFFICES ASSUME NEW t \in Turns PROVE worker'[t] # "running"
  OBVIOUS
<1>1. worker \in [Turns -> {"none", "running", "done"}] /\ t # 0
  BY DEF HeldInv, TypeInv, TypeOK, Turns
<1>2. worker[t] = "running" => t = current_task
  BY DEF HeldInv, RunningWorkerIsHeld
<1>3. CASE current_task # 0 /\ worker[current_task] = "running"
  <2>1. worker' = [worker EXCEPT ![current_task] = "done"]
    BY <1>3 DEF CancelWorker
  <2> QED BY <1>1, <1>2, <2>1
<1>4. CASE ~(current_task # 0 /\ worker[current_task] = "running")
  <2>1. worker' = worker
    BY <1>4 DEF CancelWorker
  <2> QED BY <1>1, <1>2, <1>4, <2>1
<1> QED BY <1>3, <1>4

LEMMA DeliverHeld ==
  HeldInv /\ Deliver =>
    OneUtterance' /\ Announced' /\ (main' \in {"silence", "stt"} => current_task' = 0) /\ RunningWorkerIsHeld'
PROOF
<1> SUFFICES ASSUME HeldInv, Deliver
             PROVE  /\ OneUtterance' /\ Announced'
                    /\ main' \in {"silence", "stt"} => current_task' = 0
                    /\ RunningWorkerIsHeld'
  OBVIOUS
<1>1. CASE DropSignal \/ Prompt \/ DropPrompt
  <2>1. PICK k \in {"end", "hangup", "ask"} : Pull(k)
    BY <1>1 DEF DropSignal, Prompt, DropPrompt
  <2>2. UNCHANGED <<main, current, current_task, worker>> /\ main = "pull"
    BY <1>1 DEF DropSignal, Prompt, DropPrompt, Pull
  <2> QED BY <2>1, <2>2, PullHeld, PullLeaves DEF HeldInv, Announced, InSpeech, RunningWorkerIsHeld
<1>2. CASE TakeUtterance
  <2>1. Pull("utterance") /\ main' = "stt" /\ UNCHANGED <<current_task, worker>>
    BY <1>2 DEF TakeUtterance
  <2>2. 1 \in DOMAIN bridge /\ bridge[1].kind = "utterance"
    BY <2>1, PullLeaves DEF HeldInv
  <2>3. current_task = 0
    BY <2>1, <2>2, PullHeld
  <2>4. \A i \in DOMAIN bridge' : bridge'[i].kind # "utterance"
    BY <2>1, <2>2, PullLeaves DEF HeldInv, OneUtterance
  <2>5. emitted.kind # "utterance" /\ (InSpeech => emitted.kind = "start")
    BY <2>2 DEF HeldInv, OneUtterance
  <2> QED BY <2>1, <2>3, <2>4, <2>5, PullHeld DEF Pull, HeldInv, Announced, InSpeech, RunningWorkerIsHeld
<1>3. CASE StopAnswer
  <2>1. Pull("start") /\ CancelWorker(queues) /\ current_task' = 0 /\ main' = "silence"
    BY <1>3 DEF StopAnswer
  <2>2. \A t \in Turns : worker'[t] # "running"
    BY <2>1, CancelStops
  <2> QED BY <2>1, <2>2, PullHeld DEF Announced, RunningWorkerIsHeld
<1>4. CASE StopSpeaking
  BY <1>4 DEF StopSpeaking, HeldInv, OneUtterance, Announced, InSpeech, StartWaits, RunningWorkerIsHeld
<1>5. CASE StreamRunsOut
  <2>1. Pull("sentinel") /\ CancelWorker(queues) /\ current_task' = current_task /\ main' = "ended"
    BY <1>5 DEF StreamRunsOut, Over, SynthesisEnds
  <2>2. \A t \in Turns : worker'[t] # "running"
    BY <2>1, CancelStops
  <2> QED BY <2>1, <2>2, PullHeld, PullLeaves DEF HeldInv, Announced, InSpeech, RunningWorkerIsHeld
<1> QED BY <1>1, <1>2, <1>3, <1>4, <1>5 DEF Deliver

LEMMA AnswerHeld ==
  HeldInv /\ (Transcript \/ Answer \/ Cancelled) =>
    OneUtterance' /\ Announced' /\ (main' \in {"silence", "stt"} => current_task' = 0) /\ RunningWorkerIsHeld'
PROOF
<1> SUFFICES ASSUME HeldInv, Transcript \/ Answer \/ Cancelled
             PROVE  /\ OneUtterance' /\ Announced'
                    /\ main' \in {"silence", "stt"} => current_task' = 0
                    /\ RunningWorkerIsHeld'
  OBVIOUS
<1> USE DEF Waited, Get, Answering, Transcribing
<1>1. UNCHANGED <<signalVars, bridge>> /\ main \in {"pull", "stt", "answer"}
  BY DEF Transcript, Ask, EmptyTranscript, TranscriptionFails, Over, SynthesisEnds, Answer, NextSentence, SaveAnswer,
         NoAnswer, WorkerFailed, ToolCalled, Apologise, Say, EndConversation, KeepWaiting, GiveUp, Cancelled
<1>2. OneUtterance'
  BY <1>1 DEF HeldInv, OneUtterance, InSpeech
<1>3. CASE Ask
  <2>1. main = "stt" /\ main' = "answer" /\ current_task = 0 /\ current_task' = current /\ current # 0
    BY <1>3 DEF Ask, HeldInv, TypeInv, BusyWithATurn
  <2>2. \A t \in Turns : worker'[t] = "running" => t = current
    BY <1>3, <2>1 DEF Ask, HeldInv, TypeInv, TypeOK, RunningWorkerIsHeld, Turns
  <2> QED BY <1>1, <1>2, <2>1, <2>2 DEF HeldInv, Announced, InSpeech, StartWaits, RunningWorkerIsHeld
<1>4. CASE TranscriptionFails \/ EndConversation \/ Cancelled
  <2>1. PICK qs : CancelWorker(qs)
    BY <1>4 DEF TranscriptionFails, EndConversation, Cancelled, Over, SynthesisEnds
  <2>2. main' = "ended" /\ current_task' = current_task
    BY <1>4 DEF TranscriptionFails, EndConversation, Cancelled, Over, SynthesisEnds
  <2>3. \A t \in Turns : worker'[t] # "running"
    BY <2>1, CancelStops
  <2> QED BY <1>1, <1>2, <2>2, <2>3 DEF HeldInv, Announced, InSpeech, StartWaits, RunningWorkerIsHeld
<1>5. CASE EmptyTranscript \/ SaveAnswer \/ NextSentence \/ NoAnswer \/ WorkerFailed \/ ToolCalled
             \/ KeepWaiting \/ GiveUp
  <2>1. UNCHANGED <<current_task, worker>> /\ main' \in {"pull", "answer"}
    BY <1>5 DEF EmptyTranscript, SaveAnswer, NextSentence, NoAnswer, WorkerFailed, ToolCalled, KeepWaiting,
                GiveUp, Apologise
  <2> QED BY <1>1, <1>2, <2>1 DEF HeldInv, Announced, InSpeech, StartWaits, RunningWorkerIsHeld
<1> QED BY <1>3, <1>4, <1>5 DEF Transcript, Answer

LEMMA HeldKept == HeldInv /\ [Next]_vars => HeldInv'
PROOF
<1> SUFFICES ASSUME HeldInv, [Next]_vars PROVE HeldInv'
  OBVIOUS
<1>1. TypeInv'
  BY TypesKept DEF HeldInv
<1>2. CASE SourceStep \/ Harvester
  <2>1. UNCHANGED <<main, current_task, worker>>
    BY <1>2 DEF SourceStep, Harvester, Harvest, HarvesterPurges, HarvesterPuts, HarvesterDrops, HarvesterEnds
  <2> QED BY <1>1, <1>2, <2>1, SourceHeld, HarvesterHeld DEF HeldInv, RunningWorkerIsHeld
<1>3. CASE (\E t \in Turns : LlmWorker(t)) \/ Tts \/ UNCHANGED vars
  <2>1. UNCHANGED <<signalVars, bridge, main, current_task>>
    BY <1>3 DEF LlmWorker, Produce, Finish, Fail, Die, WorkerStep, Tts, TakePhrase, PushChunk, PhraseDone,
                Play, TtsStep
  <2>2. \A t \in Turns : worker'[t] = "running" => worker[t] = "running"
    BY <1>3 DEF LlmWorker, Produce, Finish, Fail, Die, WorkerStep, Tts, TakePhrase, PushChunk, PhraseDone,
                Play, TtsStep, HeldInv, TypeInv, TypeOK
  <2> QED BY <1>1, <2>1, <2>2 DEF HeldInv, OneUtterance, Announced, InSpeech, StartWaits, RunningWorkerIsHeld
<1> QED BY <1>1, <1>2, <1>3, DeliverHeld, AnswerHeld DEF HeldInv, Next, Main

\* For any number of turns: at most one question is put to the LLM at a time, it is the
\* one llm_stream can cancel, and none is left when the pipeline has ended.
THEOREM RunningWorkerIsHeldAlways == Spec => []RunningWorkerIsHeld
PROOF
<1>1. HeldInv => RunningWorkerIsHeld
  BY DEF HeldInv
<1> QED BY <1>1, HeldStarts, HeldKept, PTL DEF Spec

-----------------------------------------------------------------------------
(* The history.  Turns reach main in their order and each of them once; a    *)
(* question is answered from the queue of its own worker.                    *)

\* A StartSpeaking that waits in the bridge is of a later turn than any handled.
InOrder ==
  /\ silenced <= Handled /\ Handled <= BridgeTurn
  /\ StartWaits => Handled < BridgeTurn

\* A queue is written by the worker of its own question only.
OwnQueues ==
  /\ \A q \in Turns : \A i \in DOMAIN queues[q] : queues[q][i].turn = q
  /\ \A t \in Turns : worker[t] = "running" => writes[t] = t

NotYetAsked(t) == \A k \in DOMAIN history : history[k].turn < t

\* An utterance on its way is not in the history yet.
UtteranceIsNew ==
  /\ \A i \in DOMAIN bridge : bridge[i].kind = "utterance" => NotYetAsked(bridge[i].turn)
  /\ emitted.kind = "utterance" => NotYetAsked(emitted.turn)
  /\ InSpeech => NotYetAsked(turn)
  /\ main = "stt" => NotYetAsked(current)

\* The answer in the making follows its question.
QuestionIsLast ==
  main = "answer" =>
    /\ history # <<>> /\ history[Len(history)] = User(current)
    /\ \A j \in DOMAIN full_response : full_response[j] = current

TurnInv == SilenceInv /\ HeldInv /\ InOrder /\ OwnQueues
HistoryInv ==
  /\ TurnInv /\ UtteranceIsNew /\ QuestionIsLast
  /\ \A k \in DOMAIN history : history[k].turn <= silenced
  /\ HistoryIsOfOneTurn

LEMMA HistoryStarts == Init => HistoryInv
PROOF
<1> SUFFICES ASSUME Init PROVE HistoryInv
  OBVIOUS
<1>1. InOrder
  BY DEF Init, SignalsInit, InOrder, Handled, BridgeTurn, StartWaits, NoItem, Item
<1>2. OwnQueues
  BY DEF Init, OwnQueues
<1>3. UtteranceIsNew /\ QuestionIsLast /\ HistoryIsOfOneTurn /\ \A k \in DOMAIN history : history[k].turn <= silenced
  BY DEF Init, SignalsInit, UtteranceIsNew, QuestionIsLast, NotYetAsked, HistoryIsOfOneTurn, InSpeech, NoItem, Item
<1> QED BY <1>1, <1>2, <1>3, SilenceStarts, HeldStarts DEF HistoryInv, TurnInv

\* The answer, the transcription and a cancellation leave the way of the items alone.
LEMMA AnswerFrame ==
  Transcript \/ Answer \/ Cancelled =>
    UNCHANGED <<signalVars, bridge, current, silenced>> /\ main # "silence" /\ main' # "silence" /\ main' # "stt"
PROOF BY DEF Transcript, Ask, EmptyTranscript, TranscriptionFails, Over, SynthesisEnds, Answer, NextSentence, SaveAnswer,
         NoAnswer, WorkerFailed, ToolCalled, Apologise, Say, EndConversation, KeepWaiting, GiveUp, Cancelled,
         Waited, Get, Answering, Transcribing

\* So do the LLM workers and the synthesis.
LEMMA OthersFrame ==
  (\E t \in Turns : LlmWorker(t)) \/ Tts \/ UNCHANGED vars =>
    UNCHANGED <<signalVars, bridge, main, current, silenced, current_task, sentence_queue, full_response, history, writes>>
PROOF BY DEF LlmWorker, Produce, Finish, Fail, Die, WorkerStep, Tts, TakePhrase, PushChunk, PhraseDone, Play, TtsStep

LEMMA BridgeTurnTypes ==
  SilenceInv => /\ BridgeTurn \in Nat /\ silenced \in Nat /\ current \in Nat /\ turn \in Nat /\ Handled \in Nat
                /\ emitted.kind = "start" => BridgeTurn + 1 = turn
PROOF
<1> SUFFICES ASSUME SilenceInv
             PROVE  /\ BridgeTurn \in Nat /\ silenced \in Nat /\ current \in Nat /\ turn \in Nat /\ Handled \in Nat
                    /\ emitted.kind = "start" => BridgeTurn + 1 = turn
  OBVIOUS
<1>1. silenced \in Nat /\ current \in Nat /\ turn \in Nat
  BY SignalsAssumption DEF SilenceInv, TypeInv, TypeOK, SignalsTypeOK
<1>2. emitted.kind = "start" => turn # 0
  BY DEF SilenceInv, TypeInv, BusyWithATurn, Spoken, OneTurnInBridge, NoItem, Item
<1>3. BridgeTurn \in Nat /\ (emitted.kind = "start" => BridgeTurn + 1 = turn)
  BY <1>1, <1>2 DEF BridgeTurn
<1> QED BY <1>1, <1>3 DEF Handled

LEMMA OrderKept == SilenceInv /\ InOrder /\ [Next]_vars => InOrder'
PROOF
<1> SUFFICES ASSUME SilenceInv, InOrder, [Next]_vars PROVE InOrder'
  OBVIOUS
<1>1. TypeInv
  BY DEF SilenceInv
<1>2. ASSUME UNCHANGED <<signalVars, bridge, main, current, silenced>> PROVE InOrder'
  BY <1>2 DEF InOrder, Handled, BridgeTurn, StartWaits
<1>3. CASE SourceStep
  <2>1. BridgeTurn' = BridgeTurn
    BY <1>3, SignalsAssumption DEF SilenceInv, TypeInv, TypeOK, SignalsTypeOK, SourceStep, Speak, StartSpeaking,
         EndSpeaking, HandOver, AskUser, HangUp, TrackEnds, Yield, BridgeTurn, NoItem, Item
  <2> QED BY <1>3, <2>1 DEF SourceStep, InOrder, Handled, StartWaits
<1>4. CASE HarvesterPurges
  <2>1. BridgeTurn' = BridgeTurn + 1 /\ UNCHANGED <<main, current, silenced>>
    BY <1>1, <1>4, BridgeTurnTypes DEF HarvesterPurges, Harvest, Taken, BridgeTurn, NoItem, Item
  <2> QED BY <1>1, <2>1, BridgeTurnTypes DEF InOrder, Handled
<1>5. CASE HarvesterPuts
  <2>1. BridgeTurn' = BridgeTurn /\ UNCHANGED <<main, current, silenced>>
    BY <1>5 DEF HarvesterPuts, Harvest, Taken, BridgeTurn, NoItem, Item
  <2>2. StartWaits' => StartWaits
    BY <1>1, <1>5, PutKeeps DEF HarvesterPuts, StartWaits
  <2> QED BY <2>1, <2>2 DEF InOrder, Handled
<1>6. CASE HarvesterDrops
  BY <1>6 DEF HarvesterDrops, Harvest, Taken, InOrder, Handled, BridgeTurn, StartWaits, NoItem, Item
<1>7. CASE HarvesterEnds
  <2>1. UNCHANGED <<signalVars, main, current, silenced>> /\ bridge' \in {bridge, Append(bridge, Sentinel)}
    BY <1>7 DEF HarvesterEnds
  <2>2. StartWaits' => StartWaits
    BY <1>1, <2>1, PutKeeps DEF StartWaits, Sentinel, Item
  <2> QED BY <2>1, <2>2 DEF InOrder, Handled, BridgeTurn
<1>8. CASE StopAnswer
  <2>1. Pull("start") /\ main' = "silence" /\ current' = Head(bridge).turn /\ silenced' = silenced
    BY <1>8 DEF StopAnswer
  <2>2. Handled' = BridgeTurn' /\ BridgeTurn' = BridgeTurn /\ ~StartWaits'
    BY <2>1, PullSilence DEF Handled
  <2> QED BY <1>1, <2>1, <2>2, BridgeTurnTypes DEF InOrder
<1>9. CASE StopSpeaking
  BY <1>1, <1>9, BridgeTurnTypes DEF StopSpeaking, InOrder, Handled, BridgeTurn, StartWaits
<1>10. CASE StreamRunsOut \/ DropSignal \/ Prompt \/ DropPrompt \/ TakeUtterance
  <2>1. PICK k \in {"sentinel", "end", "hangup", "ask", "utterance"} : Pull(k)
    BY <1>10 DEF StreamRunsOut, DropSignal, Prompt, DropPrompt, TakeUtterance
  <2>2. silenced' = silenced /\ main = "pull" /\ main' # "silence"
    BY <1>10 DEF StreamRunsOut, Over, SynthesisEnds, DropSignal, Prompt, DropPrompt, TakeUtterance, Pull
  <2>3. ~StartWaits' /\ BridgeTurn' = BridgeTurn
    BY <2>1, PullSilence
  <2> QED BY <2>2, <2>3 DEF InOrder, Handled
<1>11. CASE Transcript \/ Answer \/ Cancelled
  BY <1>11, AnswerFrame DEF InOrder, Handled, BridgeTurn, StartWaits
<1>12. CASE (\E t \in Turns : LlmWorker(t)) \/ Tts \/ UNCHANGED vars
  BY <1>2, <1>12, OthersFrame
<1> QED BY <1>3, <1>4, <1>5, <1>6, <1>7, <1>8, <1>9, <1>10, <1>11, <1>12 DEF Next, Harvester, Main, Deliver

\* An item of a question in the queue of that question.
LEMMA PutIsOwn ==
  ASSUME TypeInv, OwnQueues, NEW t \in Turns, NEW last \in Seq(QueueItems),
         \A i \in DOMAIN last : last[i].turn = t
  PROVE  \A q \in Turns : \A i \in DOMAIN [queues EXCEPT ![t] = @ \o last][q] :
           [queues EXCEPT ![t] = @ \o last][q][i].turn = q
PROOF
<1> SUFFICES ASSUME NEW q \in Turns, NEW i \in DOMAIN [queues EXCEPT ![t] = @ \o last][q]
             PROVE  [queues EXCEPT ![t] = @ \o last][q][i].turn = q
  OBVIOUS
<1>1. queues \in [Turns -> Seq(QueueItems)]
  BY DEF TypeInv, TypeOK
<1>2. CASE q = t
  <2>1. queues[t] \in Seq(QueueItems) /\ i \in DOMAIN (queues[t] \o last)
    BY <1>1, <1>2
  <2>2. \A j \in DOMAIN queues[t] : queues[t][j].turn = t
    BY DEF OwnQueues
  <2>3. \/ i \in DOMAIN queues[t] /\ (queues[t] \o last)[i] = queues[t][i]
        \/ i - Len(queues[t]) \in DOMAIN last /\ (queues[t] \o last)[i] = last[i - Len(queues[t])]
    BY <2>1
  <2>4. (queues[t] \o last)[i].turn = t
    BY <2>2, <2>3
  <2> QED BY <1>1, <1>2, <2>4
<1>3. CASE q # t
  BY <1>1, <1>3 DEF OwnQueues
<1> QED BY <1>2, <1>3

\* main takes an item from its queue; a cancelled worker ends its own.
LEMMA RestIsOwn ==
  ASSUME TypeInv, OwnQueues, NEW k, Get(k)
  PROVE  /\ \A q \in Turns : \A i \in DOMAIN Rest[q] : Rest[q][i].turn = q
         /\ sentence_queue = current /\ Head(queues[sentence_queue]).turn = current
PROOF
<1>1. sentence_queue \in Turns /\ sentence_queue = current
  BY SignalsAssumption DEF Get, TypeInv, TypeOK, BusyWithATurn, Turns
<1>2. queues[sentence_queue] \in Seq(QueueItems) /\ queues[sentence_queue] # <<>>
  BY <1>1 DEF Get, TypeInv, TypeOK
<1>3. /\ Head(queues[sentence_queue]) = queues[sentence_queue][1] /\ 1 \in DOMAIN queues[sentence_queue]
      /\ \A i \in DOMAIN Tail(queues[sentence_queue]) :
           /\ i + 1 \in DOMAIN queues[sentence_queue]
           /\ Tail(queues[sentence_queue])[i] = queues[sentence_queue][i + 1]
  BY <1>2, HeadTail
<1>4. Head(queues[sentence_queue]).turn = current
  BY <1>1, <1>3 DEF OwnQueues
<1>5. ASSUME NEW q \in Turns, NEW i \in DOMAIN Rest[q] PROVE Rest[q][i].turn = q
  <2>1. queues \in [Turns -> Seq(QueueItems)]
    BY DEF TypeInv, TypeOK
  <2>2. CASE q = sentence_queue
    <3>1. Rest[q] = Tail(queues[sentence_queue])
      BY <1>1, <2>1, <2>2 DEF Rest
    <3> QED BY <1>1, <1>3, <1>5, <2>2, <3>1 DEF OwnQueues
  <2>3. CASE q # sentence_queue
    <3>1. Rest[q] = queues[q]
      BY <2>1, <2>3 DEF Rest
    <3> QED BY <1>5, <3>1 DEF OwnQueues
  <2> QED BY <2>2, <2>3
<1> QED BY <1>1, <1>4, <1>5

\* CancelWorker, with what else its step makes of the queues.
LEMMA CancelIsOwn ==
  ASSUME HeldInv, OwnQueues, NEW qs \in [Turns -> Seq(QueueItems)], CancelWorker(qs), writes' = writes,
         \A q \in Turns : \A i \in DOMAIN qs[q] : qs[q][i].turn = q
  PROVE  OwnQueues'
PROOF
<1>1. \A t \in Turns : worker'[t] # "running"
  BY CancelStops
<1>2. CASE current_task # 0 /\ worker[current_task] = "running"
  <2>1. current_task \in Turns
    BY <1>2, SignalsAssumption DEF HeldInv, TypeInv, TypeOK, Turns
  <2>2. writes[current_task] = current_task
    BY <1>2, <2>1 DEF OwnQueues
  <2> DEFINE last == <<Item("cancelled", current_task), Item("end", current_task)>>
  <2>3. queues' = [qs EXCEPT ![current_task] = @ \o last]
    BY <1>2, <2>2 DEF CancelWorker
  <2>4. last \in Seq(QueueItems) /\ \A i \in DOMAIN last : last[i].turn = current_task
    BY DEF HeldInv, TypeInv, TypeOK, QueueItems, Item
  <2> HIDE DEF last
  <2>5. ASSUME NEW q \in Turns, NEW i \in DOMAIN queues'[q] PROVE queues'[q][i].turn = q
    <3>1. CASE q = current_task
      <4>1. queues'[q] = qs[q] \o last /\ qs[q] \in Seq(QueueItems)
        BY <2>1, <2>3, <3>1
      <4>2. \/ i \in DOMAIN qs[q] /\ queues'[q][i] = qs[q][i]
            \/ i - Len(qs[q]) \in DOMAIN last /\ queues'[q][i] = last[i - Len(qs[q])]
        BY <2>4, <2>5, <4>1
      <4> QED BY <2>4, <3>1, <4>2
    <3>2. CASE q # current_task
      BY <2>3, <2>5, <3>2
    <3> QED BY <3>1, <3>2
  <2> QED BY <1>1, <2>5 DEF OwnQueues
<1>3. CASE ~(current_task # 0 /\ worker[current_task] = "running")
  <2>1. queues' = qs
    BY <1>3 DEF CancelWorker
  <2> QED BY <1>1, <2>1 DEF OwnQueues
<1> QED BY <1>2, <1>3

LEMMA WorkersOwn == TypeInv /\ OwnQueues /\ (\E t \in Turns : LlmWorker(t)) => OwnQueues'
PROOF
<1> SUFFICES ASSUME TypeInv, OwnQueues, NEW t \in Turns, LlmWorker(t) PROVE OwnQueues'
  OBVIOUS
<1>1. worker[t] = "running" /\ writes' = writes /\ writes[t] = t
  BY DEF LlmWorker, Produce, Finish, Fail, Die, WorkerStep, OwnQueues
<1>2. \A u \in Turns : worker'[u] = "running" => worker[u] = "running"
  BY DEF LlmWorker, Produce, Finish, Fail, Die, TypeInv, TypeOK
<1>3. \A k \in {"sentence", "tool", "bye", "end", "exception"} : Item(k, t) \in QueueItems /\ Item(k, t).turn = t
  BY DEF Item, QueueItems, Turns
<1>4. PICK last \in Seq(QueueItems) : /\ \A i \in DOMAIN last : last[i].turn = t
                                      /\ queues' \in {queues, [queues EXCEPT ![t] = @ \o last]}
  <2>1. CASE \E kind \in {"sentence", "tool", "bye", "end"} : Put(t, kind)
    <3>1. PICK kind \in {"sentence", "tool", "bye", "end"} : Put(t, kind)
      BY <2>1
    <3>2. <<Item(kind, t)>> \in Seq(QueueItems) /\ \A i \in DOMAIN <<Item(kind, t)>> : <<Item(kind, t)>>[i].turn = t
      BY <1>3
    <3>3. queues' = [queues EXCEPT ![t] = @ \o <<Item(kind, t)>>]
      <4>1. queues[t] \in Seq(QueueItems) /\ Item(kind, t) \in QueueItems
        BY <1>3 DEF TypeInv, TypeOK
      <4>2. Append(queues[t], Item(kind, t)) = queues[t] \o <<Item(kind, t)>>
        BY <4>1
      <4> QED BY <1>1, <3>1, <4>2 DEF Put
    <3> QED BY <3>2, <3>3
  <2>2. CASE Fail(t)
    <3>1. /\ <<Item("exception", t), Item("end", t)>> \in Seq(QueueItems)
          /\ \A i \in DOMAIN <<Item("exception", t), Item("end", t)>> :
               <<Item("exception", t), Item("end", t)>>[i].turn = t
      BY <1>3
    <3> QED BY <1>1, <2>2, <3>1 DEF Fail
  <2>3. CASE Die(t)
    <3>1. <<>> \in Seq(QueueItems) /\ \A i \in DOMAIN <<>> : <<>>[i].turn = t
      OBVIOUS
    <3> QED BY <2>3, <3>1 DEF Die
  <2> QED BY <2>1, <2>2, <2>3 DEF LlmWorker, Produce, Finish
<1>5. \A q \in Turns : \A i \in DOMAIN queues'[q] : queues'[q][i].turn = q
  <2>1. CASE queues' = queues
    BY <2>1 DEF OwnQueues
  <2>2. CASE queues' = [queues EXCEPT ![t] = @ \o last]
    BY <1>4, <2>2, PutIsOwn
  <2> QED BY <1>4, <2>1, <2>2
<1> QED BY <1>1, <1>2, <1>5 DEF OwnQueues

LEMMA QueuesKept == HeldInv /\ OwnQueues /\ [Next]_vars => OwnQueues'
PROOF
<1> SUFFICES ASSUME HeldInv, OwnQueues, [Next]_vars PROVE OwnQueues'
  OBVIOUS
<1>1. TypeInv /\ queues \in [Turns -> Seq(QueueItems)]
  BY DEF HeldInv, TypeInv, TypeOK
<1>2. ASSUME UNCHANGED <<worker, writes, queues>> PROVE OwnQueues'
  BY <1>2 DEF OwnQueues
<1>3. ASSUME CancelWorker(queues), writes' = writes PROVE OwnQueues'
  BY <1>1, <1>3, CancelIsOwn DEF OwnQueues
<1>4. ASSUME NEW k, Get(k), queues' = Rest, UNCHANGED <<worker, writes>> PROVE OwnQueues'
  BY <1>1, <1>4, RestIsOwn DEF OwnQueues
<1>5. CASE SourceStep \/ Harvester
  BY <1>2, <1>5 DEF SourceStep, Harvester, Harvest, HarvesterPurges, HarvesterPuts, HarvesterDrops, HarvesterEnds
<1>6. CASE DropSignal \/ StopSpeaking \/ Prompt \/ DropPrompt \/ TakeUtterance
  BY <1>2, <1>6 DEF DropSignal, StopSpeaking, Prompt, DropPrompt, TakeUtterance
<1>7. CASE StreamRunsOut \/ StopAnswer \/ TranscriptionFails \/ Cancelled
  BY <1>3, <1>7 DEF StreamRunsOut, StopAnswer, TranscriptionFails, Cancelled, Over
<1>8. CASE Ask
  <2>1. /\ current \in Turns /\ queues' = queues
        /\ worker' = [worker EXCEPT ![current] = "running"] /\ writes' = [writes EXCEPT ![current] = current]
    BY <1>1, <1>8, SignalsAssumption DEF Ask, Transcribing, FreshQueue, TypeInv, TypeOK, BusyWithATurn, Turns
  <2> QED BY <1>1, <2>1 DEF OwnQueues, TypeInv, TypeOK
<1>9. CASE EmptyTranscript \/ KeepWaiting \/ GiveUp
  BY <1>2, <1>9 DEF EmptyTranscript, KeepWaiting, GiveUp, Apologise, Answering
<1>10. CASE NextSentence \/ SaveAnswer \/ NoAnswer \/ WorkerFailed \/ ToolCalled
  BY <1>4, <1>10 DEF NextSentence, SaveAnswer, NoAnswer, WorkerFailed, ToolCalled, Apologise, Answering
<1>11. CASE EndConversation
  <2>1. Get("bye") /\ CancelWorker(Rest) /\ writes' = writes
    BY <1>11 DEF EndConversation, Over
  <2>2. Rest \in [Turns -> Seq(QueueItems)]
    BY <1>1, <2>1, GetTypes
  <2> QED BY <1>1, <2>1, <2>2, RestIsOwn, CancelIsOwn
<1>12. CASE \E t \in Turns : LlmWorker(t)
  BY <1>1, <1>12, WorkersOwn
<1>13. CASE Tts \/ UNCHANGED vars
  BY <1>2, <1>13 DEF Tts, TakePhrase, PushChunk, PhraseDone, Play, TtsStep
<1> QED BY <1>5, <1>6, <1>7, <1>8, <1>9, <1>10, <1>11, <1>12, <1>13 DEF Next, Main, Deliver, Transcript, Answer

\* The history with one more entry.
LEMMA HistoryGrows ==
  ASSUME TypeInv, NEW e \in HistoryItems, history' = Append(history, e)
  PROVE  \E n \in Nat :
           /\ n = Len(history) /\ DOMAIN history = 1..n /\ (history # <<>> => n >= 1)
           /\ DOMAIN history' = 1..(n + 1) /\ Len(history') = n + 1 /\ history' # <<>>
           /\ history'[n + 1] = e
           /\ \A k \in 1..n : history'[k] = history[k]
           /\ \A k \in DOMAIN history' : k = n + 1 \/ (k \in DOMAIN history /\ history'[k] = history[k])
           /\ \A k \in DOMAIN history : history[k].turn \in Nat
PROOF
<1>1. history \in Seq(HistoryItems)
  BY DEF TypeInv, TypeOK
<1>2. PICK n \in Nat : n = Len(history)
  BY <1>1
<1>3. DOMAIN history = 1..n /\ (history # <<>> => n >= 1)
  BY <1>1, <1>2
<1>4. DOMAIN history' = 1..(n + 1) /\ Len(history') = n + 1 /\ history' # <<>> /\ history'[n + 1] = e
  BY <1>1, <1>2
<1>5. \A k \in 1..n : history'[k] = history[k]
  BY <1>1, <1>2
<1>6. ASSUME NEW k \in 1..n PROVE history[k].turn \in Nat
  <2>1. history[k] \in HistoryItems
    BY <1>1, <1>3
  <2> QED BY <2>1, SignalsAssumption DEF HistoryItems
<1>7. \A k \in 1..(n + 1) : k = n + 1 \/ k \in 1..n
  BY <1>2
<1> QED BY <1>2, <1>3, <1>4, <1>5, <1>6, <1>7

\* What the items on their way and the history have to do with each other stays when the
\* history does.
LEMMA UtteranceStaysNew ==
  HistoryInv /\ history' = history /\ [Next]_vars => UtteranceIsNew'
PROOF
<1> SUFFICES ASSUME HistoryInv, history' = history, [Next]_vars PROVE UtteranceIsNew'
  OBVIOUS
<1>1. \A t : NotYetAsked(t)' <=> NotYetAsked(t)
  BY DEF NotYetAsked
<1>2. TypeInv /\ HeldInv /\ SilenceInv /\ UtteranceIsNew /\ InOrder
  BY DEF HistoryInv, TurnInv, SilenceInv
<1>3. ASSUME UNCHANGED <<signalVars, bridge>>, main' = "stt" => main = "stt" /\ current' = current
      PROVE  UtteranceIsNew'
  BY <1>2, <1>3 DEF UtteranceIsNew, InSpeech, NotYetAsked
<1>4. CASE SourceStep
  <2>1. UNCHANGED <<bridge, main, current, history>> /\ Speak
    BY <1>4 DEF SourceStep
  <2>2. CASE StartSpeaking
    <3>1. emitted = NoItem /\ emitted'.kind = "start" /\ turn' = turn + 1 /\ BridgeTurn = turn
      BY <2>2 DEF StartSpeaking, Yield, Item, NoItem, BridgeTurn
    <3>2. NotYetAsked(turn + 1)
      <4> SUFFICES ASSUME NEW k \in DOMAIN history PROVE history[k].turn < turn + 1
        BY DEF NotYetAsked
      <4>1. history[k].turn <= silenced
        BY DEF HistoryInv
      <4>2. history[k].turn \in Nat
        <5>1. history[k] \in HistoryItems
          BY <1>2 DEF TypeInv, TypeOK
        <5> QED BY <5>1, SignalsAssumption DEF HistoryItems
      <4> QED BY <1>2, <3>1, <4>1, <4>2, BridgeTurnTypes DEF InOrder
    <3> QED BY <1>2, <2>1, <3>1, <3>2 DEF UtteranceIsNew, InSpeech, NotYetAsked
  <2>3. CASE EndSpeaking
    BY <1>2, <2>1, <2>3 DEF EndSpeaking, Yield, Item, UtteranceIsNew, InSpeech, NotYetAsked
  <2>4. CASE HandOver
    BY <1>2, <2>1, <2>4 DEF HandOver, Yield, Item, UtteranceIsNew, InSpeech, NotYetAsked
  <2>5. CASE AskUser \/ HangUp \/ TrackEnds
    BY <1>2, <2>1, <2>5 DEF AskUser, HangUp, TrackEnds, Yield, Item, NoItem, UtteranceIsNew, InSpeech, NotYetAsked
  <2> QED BY <2>1, <2>2, <2>3, <2>4, <2>5 DEF Speak
<1>5. CASE Harvester
  <2>1. UNCHANGED <<mode, turn, main, current>> /\ (emitted'.kind = "utterance" => emitted' = emitted)
    BY <1>5 DEF Harvester, Harvest, Taken, HarvesterPurges, HarvesterPuts, HarvesterDrops, HarvesterEnds, NoItem, Item
  <2>2. \A i \in DOMAIN bridge' : bridge'[i].kind = "utterance" => NotYetAsked(bridge'[i].turn)
    <3>1. CASE HarvesterPurges
      BY <3>1 DEF HarvesterPurges
    <3>2. CASE HarvesterPuts
      BY <1>2, <3>2, PutKeeps DEF HarvesterPuts, UtteranceIsNew
    <3>3. CASE HarvesterDrops
      BY <1>2, <3>3 DEF HarvesterDrops, UtteranceIsNew
    <3>4. CASE HarvesterEnds
      <4>1. CASE bridge' = Append(bridge, Sentinel)
        BY <1>2, <4>1, PutKeeps DEF UtteranceIsNew, Sentinel, Item
      <4>2. CASE bridge' = bridge
        BY <1>2, <4>2 DEF UtteranceIsNew
      <4> QED BY <3>4, <4>1, <4>2 DEF HarvesterEnds
    <3> QED BY <1>5, <3>1, <3>2, <3>3, <3>4 DEF Harvester
  <2> QED BY <1>2, <2>1, <2>2 DEF UtteranceIsNew, InSpeech, NotYetAsked
<1>6. CASE StreamRunsOut \/ DropSignal \/ StopAnswer \/ Prompt \/ DropPrompt \/ TakeUtterance
  <2>1. PICK k \in {"sentinel", "end", "hangup", "start", "ask", "utterance"} : Pull(k)
    BY <1>6 DEF StreamRunsOut, DropSignal, StopAnswer, Prompt, DropPrompt, TakeUtterance
  <2>2. UNCHANGED signalVars /\ main = "pull"
    BY <2>1 DEF Pull
  <2>3. \A i \in DOMAIN bridge' : i + 1 \in DOMAIN bridge /\ bridge'[i] = bridge[i + 1]
    BY <1>2, <2>1, PullLeaves
  <2>4. main' = "stt" => NotYetAsked(current')
    <3>1. CASE TakeUtterance
      <4>1. Pull("utterance") /\ current' = Head(bridge).turn
        BY <3>1 DEF TakeUtterance
      <4>2. 1 \in DOMAIN bridge /\ Head(bridge) = bridge[1] /\ bridge[1].kind = "utterance"
        BY <1>2, <4>1, PullLeaves
      <4> QED BY <1>2, <4>1, <4>2 DEF UtteranceIsNew
    <3>2. CASE ~TakeUtterance
      BY <1>6, <2>2, <3>2 DEF StreamRunsOut, Over, DropSignal, StopAnswer, Prompt, DropPrompt
    <3> QED BY <3>1, <3>2
  <2> QED BY <1>2, <2>2, <2>3, <2>4 DEF UtteranceIsNew, InSpeech, NotYetAsked
<1>7. CASE StopSpeaking
  BY <1>3, <1>7 DEF StopSpeaking
<1>8. CASE Transcript \/ Answer \/ Cancelled
  BY <1>3, <1>8, AnswerFrame
<1>9. CASE (\E t \in Turns : LlmWorker(t)) \/ Tts \/ UNCHANGED vars
  BY <1>3, <1>9, OthersFrame
<1> QED BY <1>4, <1>5, <1>6, <1>7, <1>8, <1>9 DEF Next, Main, Deliver

\* A question: it is the last of the history, and what is said next is of a later turn.
LEMMA AskTells ==
  HistoryInv /\ Ask => /\ UtteranceIsNew' /\ QuestionIsLast' /\ HistoryIsOfOneTurn'
                       /\ \A k \in DOMAIN history' : history'[k].turn <= silenced'
PROOF
<1> SUFFICES ASSUME HistoryInv, Ask
             PROVE  /\ UtteranceIsNew' /\ QuestionIsLast' /\ HistoryIsOfOneTurn'
                    /\ \A k \in DOMAIN history' : history'[k].turn <= silenced'
  OBVIOUS
<1> DEFINE AskedBefore(t) == \A k \in DOMAIN history' : history'[k].turn < t
<1>1. TypeInv /\ HeldInv /\ SilenceInv /\ UtteranceIsNew /\ InOrder /\ HistoryIsOfOneTurn
  BY DEF HistoryInv, TurnInv, SilenceInv
<1>2. /\ main = "stt" /\ main' = "answer" /\ current' = current /\ history' = Append(history, User(current))
      /\ full_response' = <<>> /\ UNCHANGED <<signalVars, bridge, silenced>>
  BY DEF Ask, Transcribing
<1>3. User(current) \in HistoryItems /\ User(current).role = "user" /\ User(current).turn = current
  BY <1>1 DEF User, HistoryItems, TypeInv, TypeOK
<1>4. PICK n \in Nat :
        /\ n = Len(history) /\ DOMAIN history = 1..n
        /\ DOMAIN history' = 1..(n + 1) /\ Len(history') = n + 1 /\ history' # <<>>
        /\ history'[n + 1] = User(current)
        /\ \A k \in 1..n : history'[k] = history[k]
        /\ \A k \in DOMAIN history' : k = n + 1 \/ (k \in DOMAIN history /\ history'[k] = history[k])
        /\ \A k \in DOMAIN history : history[k].turn \in Nat
  BY <1>1, <1>2, <1>3, HistoryGrows
<1>5. NotYetAsked(current) /\ current = silenced /\ Handled = silenced
  BY <1>1, <1>2 DEF UtteranceIsNew, SilenceInv, Silent, Handled
<1>6. \A t \in Nat : silenced < t => AskedBefore(t)
  <2> SUFFICES ASSUME NEW t \in Nat, silenced < t, NEW k \in DOMAIN history'
               PROVE  history'[k].turn < t
    OBVIOUS
  <2>1. CASE k = n + 1
    BY <1>3, <1>4, <1>5, <2>1
  <2>2. CASE k \in DOMAIN history /\ history'[k] = history[k]
    <3>1. history[k].turn < silenced
      BY <1>5, <2>2 DEF NotYetAsked
    <3>2. history[k].turn \in Nat /\ silenced \in Nat
      BY <1>1, <1>4, <2>2, BridgeTurnTypes
    <3> QED BY <2>2, <3>1, <3>2
  <2> QED BY <1>4, <2>1, <2>2
<1> HIDE DEF AskedBefore
<1>7. UtteranceIsNew'
  <2>1. BridgeTurn \in Nat /\ silenced \in Nat /\ turn \in Nat /\ (emitted.kind = "start" => BridgeTurn + 1 = turn)
    BY <1>1, BridgeTurnTypes
  <2>2. ASSUME NEW i \in DOMAIN bridge', bridge'[i].kind = "utterance" PROVE AskedBefore(bridge'[i].turn)
    <3>1. i \in DOMAIN bridge /\ bridge[i].kind = "utterance" /\ bridge'[i] = bridge[i]
      BY <1>2, <2>2
    <3>2. silenced < BridgeTurn
      BY <1>1, <1>2, <1>5, <3>1 DEF HeldInv, Announced, InOrder
    <3>3. bridge[i].turn = BridgeTurn
      BY <1>1, <3>1 DEF SilenceInv, OneTurnInBridge
    <3> QED BY <1>6, <2>1, <3>1, <3>2, <3>3
  <2>3. InSpeech \/ emitted.kind = "utterance" => silenced < turn
    <3>1. CASE StartWaits
      <4>1. silenced < BridgeTurn
        BY <1>1, <1>5, <3>1 DEF InOrder
      <4>2. BridgeTurn = turn \/ BridgeTurn + 1 = turn
        BY <2>1 DEF BridgeTurn
      <4> QED BY <2>1, <4>1, <4>2
    <3>2. CASE emitted.kind = "start"
      BY <1>1, <1>5, <2>1, <3>2 DEF InOrder
    <3> QED BY <1>1, <1>2, <3>1, <3>2 DEF HeldInv, Announced
  <2>4. emitted.kind = "utterance" => emitted.turn = turn
    BY <1>1 DEF SilenceInv, OneTurnInBridge, NoItem, Item
  <2>5. emitted'.kind = "utterance" => AskedBefore(emitted'.turn)
    BY <1>2, <1>6, <2>1, <2>3, <2>4
  <2>6. InSpeech' => AskedBefore(turn')
    BY <1>2, <1>6, <2>1, <2>3 DEF InSpeech
  <2> QED BY <1>2, <2>2, <2>5, <2>6 DEF UtteranceIsNew, NotYetAsked, AskedBefore
<1>8. QuestionIsLast'
  BY <1>2, <1>4 DEF QuestionIsLast
<1>9. \A k \in DOMAIN history' : history'[k].turn <= silenced'
  <2> SUFFICES ASSUME NEW k \in DOMAIN history' PROVE history'[k].turn <= silenced
    BY <1>2
  <2>1. CASE k = n + 1
    BY <1>1, <1>3, <1>4, <1>5, <2>1, BridgeTurnTypes
  <2>2. CASE k \in DOMAIN history /\ history'[k] = history[k]
    BY <2>2 DEF HistoryInv
  <2> QED BY <1>4, <2>1, <2>2
<1>10. HistoryIsOfOneTurn'
  <2>1. ASSUME NEW k \in DOMAIN history', history'[k].role = "assistant"
        PROVE  /\ k > 1 /\ history'[k - 1] = User(history'[k].turn)
               /\ \A j \in DOMAIN history'[k].said : history'[k].said[j] = history'[k].turn
    <3>1. k \in DOMAIN history /\ history'[k] = history[k] /\ k \in 1..n
      BY <1>3, <1>4, <2>1
    <3>2. k > 1 /\ history[k - 1] = User(history[k].turn)
               /\ \A j \in DOMAIN history[k].said : history[k].said[j] = history[k].turn
      BY <1>1, <2>1, <3>1 DEF HistoryIsOfOneTurn
    <3>3. k - 1 \in 1..n
      BY <3>1, <3>2
    <3> QED BY <1>4, <3>1, <3>2, <3>3
  <2>2. ASSUME NEW i \in DOMAIN history', NEW j \in DOMAIN history', i < j, history'[j].role = "user"
        PROVE  history'[i].turn < history'[j].turn
    <3>1. i \in 1..n /\ history'[i] = history[i]
      BY <1>4, <2>2
    <3>2. CASE j = n + 1
      BY <1>3, <1>4, <1>5, <3>1, <3>2 DEF NotYetAsked
    <3>3. CASE j \in DOMAIN history /\ history'[j] = history[j]
      BY <1>1, <1>4, <2>2, <3>1, <3>3 DEF HistoryIsOfOneTurn
    <3> QED BY <1>4, <3>2, <3>3
  <2> QED BY <2>1, <2>2 DEF HistoryIsOfOneTurn
<1> QED BY <1>7, <1>8, <1>9, <1>10

\* An answer: it follows its question and consists of its own sentences.
LEMMA ReplyTells ==
  ASSUME HistoryInv, main = "answer", main' # "answer", main' # "stt", NEW r \in Seq(0..MaxTurns),
         \A j \in DOMAIN r : r[j] = current, history' = Append(history, Assistant(current, r)),
         UNCHANGED <<signalVars, bridge, silenced>>
  PROVE  /\ UtteranceIsNew' /\ QuestionIsLast' /\ HistoryIsOfOneTurn'
         /\ \A k \in DOMAIN history' : history'[k].turn <= silenced'
PROOF
<1>1. TypeInv /\ SilenceInv /\ UtteranceIsNew /\ QuestionIsLast /\ HistoryIsOfOneTurn
  BY DEF HistoryInv, TurnInv, SilenceInv
<1>2. /\ Assistant(current, r) \in HistoryItems /\ Assistant(current, r).role = "assistant"
      /\ Assistant(current, r).turn = current /\ Assistant(current, r).said = r
  BY <1>1 DEF Assistant, HistoryItems, TypeInv, TypeOK
<1>3. PICK n \in Nat :
        /\ n = Len(history) /\ DOMAIN history = 1..n /\ (history # <<>> => n >= 1)
        /\ DOMAIN history' = 1..(n + 1)
        /\ history'[n + 1] = Assistant(current, r)
        /\ \A k \in 1..n : history'[k] = history[k]
        /\ \A k \in DOMAIN history' : k = n + 1 \/ (k \in DOMAIN history /\ history'[k] = history[k])
  BY <1>1, <1>2, HistoryGrows
<1>4. n >= 1 /\ n \in DOMAIN history /\ history[n] = User(current) /\ history[n].turn = current
  BY <1>1, <1>3 DEF QuestionIsLast, User
<1>5. \A t : NotYetAsked(t) => NotYetAsked(t)'
  BY <1>2, <1>3, <1>4 DEF NotYetAsked
<1>6. UtteranceIsNew'
  BY <1>1, <1>5 DEF UtteranceIsNew, InSpeech
<1>7. QuestionIsLast'
  BY DEF QuestionIsLast
<1>8. \A k \in DOMAIN history' : history'[k].turn <= silenced'
  BY <1>2, <1>3, <1>4 DEF HistoryInv
<1>9. HistoryIsOfOneTurn'
  <2>1. ASSUME NEW k \in DOMAIN history', history'[k].role = "assistant"
        PROVE  /\ k > 1 /\ history'[k - 1] = User(history'[k].turn)
               /\ \A j \in DOMAIN history'[k].said : history'[k].said[j] = history'[k].turn
    <3>1. CASE k = n + 1
      <4>1. k > 1 /\ k - 1 = n /\ n \in 1..n
        BY <1>4, <3>1
      <4>2. history'[k - 1] = User(current)
        BY <1>3, <1>4, <4>1
      <4> QED BY <1>2, <1>3, <3>1, <4>1, <4>2
    <3>2. CASE k \in DOMAIN history /\ history'[k] = history[k]
      <4>1. k > 1 /\ history[k - 1] = User(history[k].turn)
            /\ \A j \in DOMAIN history[k].said : history[k].said[j] = history[k].turn
        BY <1>1, <2>1, <3>2 DEF HistoryIsOfOneTurn
      <4>2. k - 1 \in 1..n
        BY <1>3, <3>2, <4>1
      <4> QED BY <1>3, <3>2, <4>1, <4>2
    <3> QED BY <1>3, <3>1, <3>2
  <2>2. ASSUME NEW i \in DOMAIN history', NEW j \in DOMAIN history', i < j, history'[j].role = "user"
        PROVE  history'[i].turn < history'[j].turn
    <3>1. j \in DOMAIN history /\ history'[j] = history[j]
      BY <1>2, <1>3, <2>2
    <3>2. i \in DOMAIN history /\ history'[i] = history[i]
      BY <1>3, <2>2, <3>1
    <3> QED BY <1>1, <2>2, <3>1, <3>2 DEF HistoryIsOfOneTurn
  <2> QED BY <2>1, <2>2 DEF HistoryIsOfOneTurn
<1> QED BY <1>6, <1>7, <1>8, <1>9

\* A sentence of the question's own queue, or nothing new in the answer.
LEMMA AnswerStaysOfItsTurn ==
  HistoryInv /\ history' = history /\ [Next]_vars => QuestionIsLast'
PROOF
<1> SUFFICES ASSUME HistoryInv, history' = history, [Next]_vars, main' = "answer"
             PROVE  QuestionIsLast'
  BY DEF QuestionIsLast
<1>1. TypeInv /\ OwnQueues /\ QuestionIsLast
  BY DEF HistoryInv, TurnInv, SilenceInv
<1>2. ASSUME main = "answer", UNCHANGED <<current, full_response>> PROVE QuestionIsLast'
  BY <1>1, <1>2 DEF QuestionIsLast
<1>3. CASE NextSentence
  <2>1. Get("sentence") /\ main = "answer" /\ current' = current
    BY <1>3 DEF NextSentence, Get, Answering
  <2>2. full_response' = Append(full_response, current) /\ full_response \in Seq(0..MaxTurns)
    BY <1>1, <1>3, <2>1, RestIsOwn DEF NextSentence, TypeInv, TypeOK
  <2>3. \A j \in DOMAIN full_response : full_response[j] = current
    BY <1>1, <2>1 DEF QuestionIsLast
  <2>4. \A j \in DOMAIN full_response' : full_response'[j] = current
    BY <2>2, <2>3
  <2> QED BY <1>1, <2>1, <2>4 DEF QuestionIsLast
<1>4. CASE KeepWaiting
  BY <1>2, <1>4 DEF KeepWaiting, Waited, Answering
<1>5. CASE (\E t \in Turns : LlmWorker(t)) \/ Tts \/ UNCHANGED vars
  BY <1>2, <1>5, OthersFrame
<1>6. CASE SourceStep \/ Harvester
  <2>1. UNCHANGED <<main, current, full_response>>
    BY <1>6 DEF SourceStep, Harvester, Harvest, HarvesterPurges, HarvesterPuts, HarvesterDrops, HarvesterEnds
  <2> QED BY <1>2, <2>1
<1>7. ~Ask
  BY <1>1, HistoryGrows DEF Ask, User, HistoryItems, TypeInv, TypeOK
<1>8. CASE Deliver \/ EmptyTranscript \/ TranscriptionFails \/ SaveAnswer \/ NoAnswer \/ WorkerFailed \/ ToolCalled
           \/ EndConversation \/ GiveUp \/ Cancelled
  BY <1>8 DEF Deliver, StreamRunsOut, DropSignal, StopAnswer, StopSpeaking, Prompt, DropPrompt, TakeUtterance, Pull,
              EmptyTranscript, TranscriptionFails, Over, SaveAnswer, NoAnswer, WorkerFailed, ToolCalled, Apologise,
              EndConversation, GiveUp, Cancelled
<1> QED BY <1>3, <1>4, <1>5, <1>6, <1>7, <1>8 DEF Next, Main, Transcript, Answer

LEMMA HistoryKept == HistoryInv /\ [Next]_vars => HistoryInv'
PROOF
<1> SUFFICES ASSUME HistoryInv, [Next]_vars PROVE HistoryInv'
  OBVIOUS
<1>1. TurnInv'
  BY SilenceKept, HeldKept, OrderKept, QueuesKept DEF HistoryInv, TurnInv
<1>2. TypeInv /\ SilenceInv /\ InOrder /\ QuestionIsLast
  BY DEF HistoryInv, TurnInv, SilenceInv
<1>3. CASE Ask
  BY <1>1, <1>3, AskTells DEF HistoryInv
<1>4. CASE SaveAnswer
  <2>1. /\ main = "answer" /\ main' = "pull" /\ history' = Append(history, Assistant(current, full_response))
        /\ UNCHANGED <<signalVars, bridge, silenced>>
    BY <1>4 DEF SaveAnswer, Get, Answering
  <2>2. full_response \in Seq(0..MaxTurns) /\ \A j \in DOMAIN full_response : full_response[j] = current
    BY <1>2, <2>1 DEF QuestionIsLast, TypeInv, TypeOK
  <2> QED BY <1>1, <2>1, <2>2, ReplyTells DEF HistoryInv
<1>5. CASE EndConversation
  <2>1. /\ main = "answer" /\ main' = "ended" /\ history' = Append(history, Assistant(current, <<>>))
        /\ UNCHANGED <<signalVars, bridge, silenced>>
    BY <1>5 DEF EndConversation, Get, Over, SynthesisEnds
  <2>2. <<>> \in Seq(0..MaxTurns) /\ \A j \in DOMAIN <<>> : <<>>[j] = current
    OBVIOUS
  <2> QED BY <1>1, <2>1, <2>2, ReplyTells DEF HistoryInv
<1>6. CASE ~(Ask \/ SaveAnswer \/ EndConversation)
  <2>1. history' = history
    BY <1>6 DEF Next, Main, SourceStep, Harvester, Harvest, HarvesterPurges, HarvesterPuts, HarvesterDrops, HarvesterEnds,
         Deliver, StreamRunsOut, DropSignal, StopAnswer, StopSpeaking, Prompt, DropPrompt, TakeUtterance,
         Transcript, EmptyTranscript, TranscriptionFails, Answer, NextSentence, NoAnswer, WorkerFailed, ToolCalled,
         Apologise, KeepWaiting, GiveUp, Cancelled, LlmWorker, Produce, Finish, Fail, Die, WorkerStep,
         Tts, TakePhrase, PushChunk, PhraseDone, Play, TtsStep
  <2>2. silenced' \in {silenced, Handled}
    BY <1>2 DEF Next, Main, SourceStep, Harvester, Harvest, HarvesterPurges, HarvesterPuts, HarvesterDrops, HarvesterEnds,
         Deliver, StreamRunsOut, DropSignal, StopAnswer, StopSpeaking, Prompt, DropPrompt, TakeUtterance, Over, SynthesisEnds,
         Transcript, Ask, EmptyTranscript, TranscriptionFails, Answer, NextSentence, SaveAnswer, NoAnswer, WorkerFailed,
         ToolCalled, Apologise, Say, EndConversation, KeepWaiting, GiveUp, Cancelled, LlmWorker, Produce, Finish, Fail, Die,
         WorkerStep, Tts, TakePhrase, PushChunk, PhraseDone, Play, TtsStep, Handled
  <2>3. \A k \in DOMAIN history' : history'[k].turn <= silenced'
    <3> SUFFICES ASSUME NEW k \in DOMAIN history PROVE history[k].turn <= silenced'
      BY <2>1
    <3>1. history[k] \in HistoryItems
      BY <1>2 DEF TypeInv, TypeOK
    <3>2. history[k].turn \in Nat
      BY <3>1, SignalsAssumption DEF HistoryItems
    <3>3. history[k].turn <= silenced /\ silenced <= Handled
      BY <1>2 DEF HistoryInv, InOrder
    <3> QED BY <1>2, <2>2, <3>2, <3>3, BridgeTurnTypes
  <2>4. HistoryIsOfOneTurn'
    BY <2>1 DEF HistoryInv, HistoryIsOfOneTurn
  <2> QED BY <1>1, <2>1, <2>3, <2>4, UtteranceStaysNew, AnswerStaysOfItsTurn DEF HistoryInv
<1> QED BY <1>3, <1>4, <1>5, <1>6

\* For any number of turns, and whatever the harvester drops, the LLM takes and main gives
\* up on: every answer in the history follows its own question and is made of the sentences
\* of its own worker, and questions stand in the order they were asked (steps.py:582-648).
THEOREM HistoryIsOfOneTurnAlways == Spec => []HistoryIsOfOneTurn
PROOF
<1>1. HistoryInv => HistoryIsOfOneTurn
  BY DEF HistoryInv
<1> QED BY <1>1, HistoryStarts, HistoryKept, PTL DEF Spec

=============================================================================
