---------------------------- MODULE VoicePipeline ----------------------------
(***************************************************************************)
(* The stages behind vad_gate in src/workflows/steps.py: brain_bridge,     *)
(* stt, llm_stream and tts, with the tasks they start.  The stages are     *)
(* generators pulled one by the other, so together they are one task,      *)
(* here main: it takes an item from the bridge and carries it through all  *)
(* stages before it asks for the next.  Next to it run the harvester, one  *)
(* llm_stream_worker per question, the tts_worker and WebRTC, which takes  *)
(* the frames of the output track.                                         *)
(*                                                                         *)
(* A phrase for the user is known by the turn it answers.  A question is   *)
(* known by its turn, too: a turn has at most one utterance.               *)
(***************************************************************************)
EXTENDS SpeechSignals, Sequences, FiniteSets

CONSTANTS
  BridgeSizes,  \* maxsize of brain_bridge's queue is one of these
  TrackSize,    \* size of the output track's queue, in chunks of a phrase
  MaxOutputs    \* bound: sentences and tool calls of one LLM worker

ASSUME PipelineAssumption ==
  /\ BridgeSizes \cup {TrackSize} \subseteq Nat \ {0}
  /\ MaxOutputs \in Nat

VARIABLES
  \* brain_bridge
  bridge,          \* queue
  bridge_size,     \* its maxsize
  harvester,       \* "running", "done"
  \* main
  main,            \* "pull", "stt", "answer" (loop over sentence_queue), "silence", "ended"
  current,         \* turn of the item main is carrying
  current_task,    \* the question whose LLM worker llm_stream holds, or 0 (None)
  sentence_queue,  \* the queue it reads, a key of queues
  full_response,   \* turns of the sentences it consists of
  timeout_curr,    \* seconds
  history,         \* message_history
  \* the LLM workers
  worker,          \* question -> "none", "running", "done"
  writes,          \* question -> the queue its worker was given
  queues,          \* every sentence_queue created so far
  outputs,         \* question -> number of sentences and tool calls it produced
  \* tts
  tts_queue,
  speaking,        \* the phrase tts_worker synthesises, or 0
  track,           \* chunks waiting in the output track, each with its phrase
  \* history variables
  silenced,        \* turn of the last StartSpeaking tts has handled
  replied          \* the questions for which a phrase other than a filler was queued

bridgeVars == <<bridge, bridge_size, harvester>>
llmVars    == <<current_task, sentence_queue, full_response, timeout_curr, history, writes>>
workerVars == <<worker, queues, outputs>>
ttsVars    == <<tts_queue, speaking, track, silenced>>
vars == <<signalVars, bridgeVars, main, current, llmVars, workerVars, ttsVars, replied>>

Turns    == 1..MaxTurns
Sentinel == Item("sentinel", 0)

User(t)         == [role |-> "user", turn |-> t, said |-> <<>>]
Assistant(t, r) == [role |-> "assistant", turn |-> t, said |-> r]

Init ==
  /\ SignalsInit
  /\ bridge = <<>> /\ bridge_size \in BridgeSizes /\ harvester = "running"
  /\ main = "pull" /\ current = 0
  /\ current_task = 0 /\ sentence_queue = 0 /\ full_response = <<>> /\ timeout_curr = 0
  /\ history = <<>>
  /\ worker = [t \in Turns |-> "none"] /\ writes = [t \in Turns |-> 0]
  /\ queues = [q \in Turns |-> <<>>] /\ outputs = [t \in Turns |-> 0]
  /\ tts_queue = <<>> /\ speaking = 0 /\ track = <<>>
  /\ silenced = 0 /\ replied = {}

-----------------------------------------------------------------------------
\* vad_gate runs when the harvester asks for the next item.

SourceStep ==
  /\ harvester = "running"
  /\ Speak
  /\ UNCHANGED <<bridgeVars, main, current, llmVars, workerVars, ttsVars, replied>>

-----------------------------------------------------------------------------
\* input_harvester.  vad_gate yields the class EndOfStream and not an instance, so
\* the branch for EndOfStream is never taken: the class goes the way of any item.

Harvest ==
  /\ harvester = "running" /\ Taken
  /\ UNCHANGED <<bridge_size, harvester, main, current, llmVars, workerVars, ttsVars, replied>>

\* What is queued is thrown away before StartSpeaking is put.
HarvesterPurges == Harvest /\ emitted.kind = "start" /\ bridge' = <<emitted>>

HarvesterPuts ==
  /\ Harvest /\ emitted.kind # "start"
  /\ Len(bridge) < bridge_size
  /\ bridge' = Append(bridge, emitted)

\* The queue stays full for 2 s.
HarvesterDrops ==
  /\ Harvest /\ emitted.kind # "start"
  /\ Len(bridge) >= bridge_size
  /\ bridge' = bridge

\* mutant: the harvester ends without a word
HarvesterEndsSilently ==
  /\ harvester = "running" /\ mode = "ended" /\ emitted = NoItem
  /\ harvester' = "done"
  /\ UNCHANGED <<signalVars, bridge, bridge_size, main, current, llmVars, workerVars, ttsVars, replied>>

\* The finally clause.  When the queue is full, put_nowait raises and the except
\* clause names QueueFull, which steps.py does not import: no sentinel is sent.
HarvesterEnds ==
  /\ harvester = "running" /\ mode = "ended" /\ emitted = NoItem
  /\ harvester' = "done"
  /\ \/ Len(bridge) < bridge_size /\ bridge' = Append(bridge, Sentinel)
     \/ Len(bridge) >= bridge_size /\ bridge' = bridge
  /\ UNCHANGED <<signalVars, bridge_size, main, current, llmVars, workerVars, ttsVars, replied>>

-----------------------------------------------------------------------------
\* main: what the stages do with an item.

Pull(kind) ==
  /\ main = "pull" /\ bridge # <<>>
  /\ Head(bridge).kind = kind
  /\ bridge' = Tail(bridge)
  /\ UNCHANGED <<signalVars, bridge_size>>

\* task.cancel() of the LLM worker, if it is not done; it then puts the CancelledError
\* and None.  qs is what else the step makes of the queues.
CancelWorker(qs) ==
  IF current_task # 0 /\ worker[current_task] = "running"
  THEN /\ worker' = [worker EXCEPT ![current_task] = "done"]
       /\ queues' = [qs EXCEPT ![writes[current_task]] =
                       @ \o <<Item("cancelled", current_task), Item("end", current_task)>>]
  ELSE worker' = worker /\ queues' = qs

\* The finally clause of tts cancels tts_worker.  The None it queues before that is
\* read by nobody; what the track holds is still heard.
SynthesisEnds == speaking' = 0 /\ UNCHANGED <<tts_queue, track, silenced>>

\* The finally clauses of llm_stream, brain_bridge and tts, from the inside out.
Over(qs) ==
  /\ main' = "ended"
  /\ CancelWorker(qs)
  /\ harvester' = "done"
  /\ SynthesisEnds
  /\ UNCHANGED outputs

\* brain_bridge takes the sentinel and every stage runs out of items.
StreamRunsOut ==
  /\ Pull("sentinel") /\ Over(queues)
  /\ UNCHANGED <<current, llmVars, replied>>

\* stt passes on neither EndSpeaking nor the class EndOfStream.
DropSignal ==
  /\ Pull("end") \/ Pull("hangup")
  /\ UNCHANGED <<harvester, main, current, llmVars, workerVars, ttsVars, replied>>

\* mutant: the worker is forgotten, not cancelled
ForgetAnswer ==
  /\ Pull("start")
  /\ main' = "silence" /\ current' = Head(bridge).turn
  /\ current_task' = 0 /\ sentence_queue' = 0
  /\ UNCHANGED <<harvester, full_response, timeout_curr, history, writes, workerVars, ttsVars, replied>>

\* StartSpeaking: llm_stream cancels its worker and forgets its queue ...
StopAnswer ==
  /\ Pull("start")
  /\ main' = "silence" /\ current' = Head(bridge).turn
  /\ CancelWorker(queues)
  /\ current_task' = 0 /\ sentence_queue' = 0
  /\ UNCHANGED <<harvester, full_response, timeout_curr, history, writes, outputs, ttsVars, replied>>

\* mutant: the output track is not purged
StopSynthesisOnly ==
  /\ main = "silence" /\ main' = "pull"
  /\ tts_queue' = <<>> /\ speaking' = 0
  /\ silenced' = current
  /\ UNCHANGED <<signalVars, bridgeVars, current, llmVars, workerVars, track, replied>>

\* ... and tts clears its queue, restarts its worker and purges the track.
StopSpeaking ==
  /\ main = "silence" /\ main' = "pull"
  /\ tts_queue' = <<>> /\ speaking' = 0 /\ track' = <<>>
  /\ silenced' = current
  /\ UNCHANGED <<signalVars, bridgeVars, current, llmVars, workerVars, replied>>

\* AskUserStillThere passes stt when it has transcribed something (which it has when
\* llm_stream was asked something), llm_stream when its worker is done, and makes tts
\* speak when nothing waits to be spoken.
AskPasses == current_task # 0 /\ worker[current_task] = "done" /\ tts_queue = <<>>

Prompt ==
  /\ Pull("ask") /\ AskPasses
  /\ tts_queue' = Append(tts_queue, Head(bridge).turn)
  /\ UNCHANGED <<harvester, main, current, llmVars, workerVars, speaking, track, silenced, replied>>

DropPrompt ==
  /\ Pull("ask") /\ ~AskPasses
  /\ UNCHANGED <<harvester, main, current, llmVars, workerVars, ttsVars, replied>>

\* stt calls the transcription service.
TakeUtterance ==
  /\ Pull("utterance")
  /\ main' = "stt" /\ current' = Head(bridge).turn
  /\ UNCHANGED <<harvester, llmVars, workerVars, ttsVars, replied>>

\* mutant: one queue for all questions
SharedQueue(t) == 1

\* call_stt_openai: one request, not repeated.  It ends with a text (Ask), with
\* nothing but blanks (EmptyTranscript), or with a status, a time-out or a reply
\* without text (TranscriptionFails); nothing else moves main in "stt".
Transcribing == main = "stt" /\ UNCHANGED <<signalVars, bridge, bridge_size, current>>

FreshQueue(t) == t

\* The transcript is a question: llm_stream records it and starts a worker.
Ask ==
  /\ Transcribing
  /\ main' = "answer"
  /\ history' = Append(history, User(current))
  /\ timeout_curr' = 2 /\ full_response' = <<>>
  /\ sentence_queue' = FreshQueue(current)
  /\ writes' = [writes EXCEPT ![current] = FreshQueue(current)]
  /\ current_task' = current
  /\ worker' = [worker EXCEPT ![current] = "running"]
  /\ UNCHANGED <<harvester, queues, outputs, ttsVars, replied>>

\* Nothing was understood, or the call was cancelled: stt goes on to the next item.
EmptyTranscript ==
  /\ Transcribing
  /\ main' = "pull"
  /\ UNCHANGED <<harvester, llmVars, workerVars, ttsVars, replied>>

\* The exception of the call leaves stt and ends the loop of llm_stream, whose error
\* phrase is the last item: tts queues it and ends.
TranscriptionFails ==
  /\ Transcribing
  /\ Over(queues)
  /\ UNCHANGED <<llmVars, replied>>

-----------------------------------------------------------------------------
\* The loop of llm_stream over sentence_queue.

Get(kind) ==
  /\ main = "answer" /\ queues[sentence_queue] # <<>>
  /\ Head(queues[sentence_queue]).kind = kind

Rest == [queues EXCEPT ![sentence_queue] = Tail(@)]

Answering == UNCHANGED <<signalVars, bridge, bridge_size, current, current_task, sentence_queue, writes>>

\* A phrase llm_stream yields goes into tts_queue before llm_stream goes on.
Say(final) ==
  /\ tts_queue' = Append(tts_queue, current)
  /\ replied' = IF final THEN replied \cup {current} ELSE replied
  /\ UNCHANGED <<speaking, track, silenced>>

NextSentence ==
  /\ Get("sentence") /\ queues' = Rest /\ Answering
  /\ full_response' = Append(full_response, Head(queues[sentence_queue]).turn)
  /\ Say(TRUE)
  /\ UNCHANGED <<harvester, main, timeout_curr, history, worker, outputs>>

\* None: the answer is saved.
SaveAnswer ==
  /\ Get("end") /\ queues' = Rest /\ Answering
  /\ full_response # <<>>
  /\ history' = Append(history, Assistant(current, full_response))
  /\ main' = "pull"
  /\ UNCHANGED <<harvester, full_response, timeout_curr, worker, outputs, ttsVars, replied>>

\* A phrase that ends the answer without an entry in the history.
Apologise(qs) ==
  /\ Answering
  /\ Say(TRUE)
  /\ main' = "pull" /\ queues' = qs
  /\ UNCHANGED <<harvester, full_response, timeout_curr, history, worker, outputs>>

\* mutant: an empty answer is not noticed
EmptyAnswerIsSilent ==
  /\ Get("end") /\ full_response = <<>> /\ queues' = Rest /\ Answering
  /\ main' = "pull"
  /\ UNCHANGED <<harvester, full_response, timeout_curr, history, worker, outputs, ttsVars, replied>>

\* An empty answer: add_ai_message raises.
NoAnswer == Get("end") /\ full_response = <<>> /\ Apologise(Rest)

\* The worker's exception.  Its CancelledError never gets here: only main cancels it.
WorkerFailed == Get("exception") /\ Apologise(Rest)

\* Tool calls other than end_conversation: add_tools_calls expects dicts, is given
\* ToolCallChunks and raises.
ToolCalled == Get("tool") /\ Apologise(Rest)

\* end_conversation: EndOfStream() goes to tts, which queues the goodbye and ends.
EndConversation ==
  /\ Get("bye") /\ Over(Rest)
  /\ history' = Append(history, Assistant(current, <<>>))
  /\ UNCHANGED <<signalVars, bridge, bridge_size, current, current_task, sentence_queue, full_response,
                 timeout_curr, writes, replied>>

Waited == main = "answer" /\ queues[sentence_queue] = <<>>

\* "Estoy pensando", after 2 s and again after 4 s.
KeepWaiting ==
  /\ Waited /\ timeout_curr < 5 /\ Answering
  /\ timeout_curr' = timeout_curr + 2
  /\ Say(FALSE)
  /\ UNCHANGED <<harvester, main, full_response, history, workerVars>>

\* The worker is left running.
GiveUp == Waited /\ timeout_curr >= 5 /\ Apologise(queues)

\* The peer closed and the pipeline's task is cancelled.  (During the transcription stt
\* takes the cancellation for its own: EmptyTranscript.  While tts waits for its
\* cancelled worker it ignores it: StopSpeaking.)
Cancelled ==
  /\ main \in {"pull", "answer"} /\ Over(queues)
  /\ UNCHANGED <<signalVars, bridge, bridge_size, current, llmVars, replied>>

-----------------------------------------------------------------------------
\* llm_stream_worker.

WorkerStep(t) ==
  /\ worker[t] = "running"
  /\ UNCHANGED <<signalVars, bridgeVars, main, current, llmVars, ttsVars, replied>>

Put(t, kind) == queues' = [queues EXCEPT ![writes[t]] = Append(@, Item(kind, t))]

\* A sentence is complete, or the stream finishes with tool calls.
Produce(t, kind) ==
  /\ WorkerStep(t)
  /\ outputs[t] < MaxOutputs
  /\ outputs' = [outputs EXCEPT ![t] = @ + 1]
  /\ Put(t, kind)
  /\ UNCHANGED worker

\* The stream ends, or fails: call_llm_stream_openai swallows the error.
Finish(t) ==
  /\ WorkerStep(t)
  /\ worker' = [worker EXCEPT ![t] = "done"]
  /\ Put(t, "end")
  /\ UNCHANGED outputs

\* An exception in the worker's own code.
Fail(t) ==
  /\ WorkerStep(t)
  /\ worker' = [worker EXCEPT ![t] = "done"]
  /\ queues' = [queues EXCEPT ![writes[t]] = @ \o <<Item("exception", t), Item("end", t)>>]
  /\ UNCHANGED outputs

\* An exception before its try: nobody is told.
Die(t) ==
  /\ WorkerStep(t) /\ outputs[t] = 0
  /\ worker' = [worker EXCEPT ![t] = "done"]
  /\ UNCHANGED <<queues, outputs>>

LlmWorker(t) ==
  \/ \E kind \in {"sentence", "tool", "bye"} : Produce(t, kind)
  \/ Finish(t) \/ Fail(t) \/ Die(t)

-----------------------------------------------------------------------------
\* tts_worker and the output track.

TtsStep == UNCHANGED <<signalVars, bridgeVars, main, current, llmVars, workerVars, silenced, replied>>

TakePhrase ==
  /\ main # "ended" /\ speaking = 0 /\ tts_queue # <<>>
  /\ speaking' = Head(tts_queue) /\ tts_queue' = Tail(tts_queue)
  /\ track' = track
  /\ TtsStep

\* A chunk of the synthesis; the push waits while the track is full.
PushChunk ==
  /\ speaking # 0 /\ Len(track) < TrackSize
  /\ track' = Append(track, speaking)
  /\ UNCHANGED <<tts_queue, speaking>>
  /\ TtsStep

\* The synthesis is complete, or failed: the error is logged.
PhraseDone ==
  /\ speaking # 0 /\ speaking' = 0
  /\ UNCHANGED <<tts_queue, track>>
  /\ TtsStep

\* AudioOutputTrack.recv
Play ==
  /\ track # <<>> /\ track' = Tail(track)
  /\ UNCHANGED <<tts_queue, speaking>>
  /\ TtsStep

-----------------------------------------------------------------------------

Harvester == HarvesterPurges \/ HarvesterPuts \/ HarvesterDrops \/ HarvesterEnds
Deliver == StreamRunsOut \/ DropSignal \/ StopAnswer \/ StopSpeaking \/ Prompt \/ DropPrompt \/ TakeUtterance
Transcript == Ask \/ EmptyTranscript \/ TranscriptionFails
Answer == \/ NextSentence \/ SaveAnswer \/ NoAnswer \/ WorkerFailed \/ ToolCalled
          \/ EndConversation \/ KeepWaiting \/ GiveUp
Main == Deliver \/ Transcript \/ Answer
Tts  == TakePhrase \/ PushChunk \/ PhraseDone \/ Play

Next ==
  \/ SourceStep \/ Harvester \/ Main \/ Cancelled
  \/ \E t \in Turns : LlmWorker(t)
  \/ Tts

Spec == Init /\ [][Next]_vars

\* The event loop runs a task that is ready; a call to the transcription service, a tool
\* and a wait with a time-out end.  Nothing is assumed of the user, of the LLM, of the
\* synthesis or of the listener.
FairSpec == Spec /\ WF_vars(Harvester) /\ WF_vars(Main)

-----------------------------------------------------------------------------

BridgeItems  == [kind : Kinds \cup {"sentinel"}, turn : 0..MaxTurns]
QueueItems   == [kind : {"sentence", "tool", "bye", "end", "exception", "cancelled"}, turn : 0..MaxTurns]
HistoryItems == [role : {"user", "assistant"}, turn : 0..MaxTurns, said : Seq(0..MaxTurns)]

TypeOK ==
  /\ SignalsTypeOK
  /\ bridge \in Seq(BridgeItems) /\ bridge_size \in BridgeSizes
  /\ harvester \in {"running", "done"}
  /\ main \in {"pull", "stt", "answer", "silence", "ended"}
  /\ current \in 0..MaxTurns /\ current_task \in 0..MaxTurns /\ sentence_queue \in 0..MaxTurns
  /\ full_response \in Seq(0..MaxTurns)
  /\ timeout_curr \in {0, 2, 4, 6}
  /\ history \in Seq(HistoryItems)
  /\ worker \in [Turns -> {"none", "running", "done"}]
  /\ writes \in [Turns -> 0..MaxTurns]
  /\ queues \in [Turns -> Seq(QueueItems)]
  /\ outputs \in [Turns -> 0..MaxOutputs]
  /\ tts_queue \in Seq(0..MaxTurns) /\ track \in Seq(0..MaxTurns)
  /\ speaking \in 0..MaxTurns /\ silenced \in 0..MaxTurns
  /\ replied \subseteq 0..MaxTurns

\* What waits to be spoken, is being synthesised or is about to be heard.
Pending == {tts_queue[i] : i \in DOMAIN tts_queue} \cup {track[i] : i \in DOMAIN track}
             \cup ({speaking} \ {0})

\* Once tts has handled an interruption nothing said before it is heard, and the
\* question it leads to is only answered after that (steps.py:570-577, 755-770).
InterruptionSilences ==
  /\ \A t \in Pending : t = silenced
  /\ main \in {"stt", "answer"} => current = silenced

\* An LLM worker that runs is the one llm_stream can cancel: no two questions are put
\* to the LLM at once and no worker outlives the pipeline (steps.py:572-576, 657-660,
\* 678-682).
RunningWorkerIsHeld == \A t \in Turns : worker[t] = "running" => t = current_task /\ main # "ended"

\* What the LLM is told of the conversation is what happened: an answer follows the
\* question it was given to and consists of sentences of its own, questions come in
\* the order they were asked (steps.py:582-588, 630-648).
HistoryIsOfOneTurn ==
  /\ \A i \in DOMAIN history : history[i].role = "assistant" =>
       /\ i > 1 /\ history[i - 1] = User(history[i].turn)
       /\ \A j \in DOMAIN history[i].said : history[i].said[j] = history[i].turn
  /\ \A i, j \in DOMAIN history : i < j /\ history[j].role = "user" => history[i].turn < history[j].turn

\* The queue holds a whole turn: nothing of it is dropped.
LargeBridge == bridge_size >= MaxAsk + 5

\* Every question is answered, if only with an apology, or the pipeline ends
\* (steps.py:591-669).
EveryQuestionGetsAReply ==
  \A t \in Turns : (main = "answer" /\ current = t) ~> (t \in replied \/ main = "ended")

\* When the track ends, or the user is hung up on, every stage ends (steps.py:192, 266, 283,
\* 786-791), if there is room for the sentinel.
SentinelFits == LargeBridge \/ (harvester = "running" /\ emitted = NoItem /\ Len(bridge) < bridge_size)
PipelineEnds == (mode = "ended" /\ SentinelFits) ~> (main = "ended")
=============================================================================
